---------------------------- MODULE Spec2Model ----------------------------
(***************************************************************************)
(* singcraft: the link decoder (vless.ts), the protocol dispatcher and     *)
(* batch coordinator (parsers/index.ts), the client-config decoder         *)
(* (amnezia.ts), the VPN-config decoder (awg.ts) and the assembler         *)
(* (builder.ts).                                                           *)
(*                                                                         *)
(* A text is a sequence of one-character strings.  A decoder call is one   *)
(* action: it draws an input, runs the whole function and leaves the       *)
(* returned value in ret; Return takes the caller back to idle.            *)
(***************************************************************************)
EXTENDS Integers, Sequences, FiniteSets, TLC

VARIABLES
    pc,      \* "idle" between calls, "done" when a call has returned
    call,    \* the function last called
    arg,     \* its input
    ret,     \* the value it returned (or the exception it threw)
    callee,  \* the decoder the dispatcher handed the input to, "" when none
    memo,    \* history: the results of the calls a caller has recorded, by input
    store,   \* the wizard store: outbounds, endpoints, presets and step
    error    \* the error the import step shows, Null when none

vars == <<pc, call, arg, ret, callee, memo, store, error>>

(***************************************************************************)
(* JavaScript values                                                       *)
(***************************************************************************)

\* null / undefined where a text is expected (no character is "NULL")
Null == <<"NULL">>

\* !x for a string-or-null value
Falsy(s) == s = Null \/ s = <<>>

\* the white space String.prototype.trim removes
WhiteSpace == {" ", "\t", "\n", "\r"}

Digits == <<"0", "1", "2", "3", "4", "5", "6", "7", "8", "9">>

DigitSet == {Digits[i] : i \in 1..10}

DigitVal(c) == (CHOOSE i \in 1..10 : Digits[i] = c) - 1

UpperCase == <<"A", "B", "C", "D", "E", "F", "G", "H", "I", "J", "K", "L", "M",
               "N", "O", "P", "Q", "R", "S", "T", "U", "V", "W", "X", "Y", "Z">>

LowerCase == <<"a", "b", "c", "d", "e", "f", "g", "h", "i", "j", "k", "l", "m",
               "n", "o", "p", "q", "r", "s", "t", "u", "v", "w", "x", "y", "z">>

\* String.prototype.toLowerCase
ToLowerChar(c) ==
    IF \E i \in 1..26 : UpperCase[i] = c
    THEN LowerCase[CHOOSE i \in 1..26 : UpperCase[i] = c]
    ELSE c

ToLower(s) == [i \in 1..Len(s) |-> ToLowerChar(s[i])]

\* s.slice(from) with a 1-based first position
From(s, i) == SubSeq(s, i, Len(s))

\* String.prototype.startsWith
StartsWith(s, p) == Len(s) >= Len(p) /\ SubSeq(s, 1, Len(p)) = p

\* String.prototype.includes for one character
Includes(s, c) == \E i \in 1..Len(s) : s[i] = c

\* String.prototype.indexOf for one character: the 1-based position, 0 for -1
IndexOf(s, c) ==
    IF Includes(s, c)
    THEN CHOOSE i \in 1..Len(s) : s[i] = c /\ \A j \in 1..(i - 1) : s[j] # c
    ELSE 0

\* String.prototype.lastIndexOf for one character: the 1-based position, 0 for -1
LastIndexOf(s, c) ==
    IF Includes(s, c)
    THEN CHOOSE i \in 1..Len(s) : s[i] = c /\ \A j \in (i + 1)..Len(s) : s[j] # c
    ELSE 0

\* String.prototype.trim
Trim(s) ==
    IF \A i \in 1..Len(s) : s[i] \in WhiteSpace
    THEN <<>>
    ELSE LET a == CHOOSE i \in 1..Len(s) :
                      s[i] \notin WhiteSpace /\ \A j \in 1..(i - 1) : s[j] \in WhiteSpace
             b == CHOOSE i \in 1..Len(s) :
                      s[i] \notin WhiteSpace /\ \A j \in (i + 1)..Len(s) : s[j] \in WhiteSpace
         IN SubSeq(s, a, b)

\* String.prototype.split on one character: always at least one part
RECURSIVE Split(_, _)
Split(s, c) ==
    LET i == IndexOf(s, c)
    IN IF i = 0 THEN <<s>>
       ELSE <<SubSeq(s, 1, i - 1)>> \o Split(From(s, i + 1), c)

\* Array.prototype.join with a one-character separator
RECURSIVE Join(_, _)
Join(parts, c) ==
    IF parts = <<>> THEN <<>>
    ELSE IF Len(parts) = 1 THEN parts[1]
    ELSE parts[1] \o <<c>> \o Join(Tail(parts), c)

\* the decimal digits of a non-negative number, as in a template literal
RECURSIVE NumText(_)
NumText(n) ==
    IF n < 10 THEN <<Digits[n + 1]>>
    ELSE NumText(n \div 10) \o <<Digits[(n % 10) + 1]>>

\* the value of a run of digits
RECURSIVE DigitsValue(_)
DigitsValue(ds) ==
    IF ds = <<>> THEN 0
    ELSE 10 * DigitsValue(SubSeq(ds, 1, Len(ds) - 1)) + DigitVal(ds[Len(ds)])

\* the longest prefix of s made of digits
DigitPrefix(s) ==
    LET n == IF \A i \in 1..Len(s) : s[i] \in DigitSet THEN Len(s)
             ELSE (CHOOSE i \in 1..Len(s) :
                       s[i] \notin DigitSet /\ \A j \in 1..(i - 1) : s[j] \in DigitSet) - 1
    IN SubSeq(s, 1, n)

\* parseInt(s, 10): leading white space, an optional sign, then digits; the
\* rest is ignored; NaN when no digit follows
ParseInt(s) ==
    LET t == IF \A i \in 1..Len(s) : s[i] \in WhiteSpace THEN <<>>
             ELSE From(s, CHOOSE i \in 1..Len(s) :
                      s[i] \notin WhiteSpace /\ \A j \in 1..(i - 1) : s[j] \in WhiteSpace)
         neg == t # <<>> /\ t[1] = "-"
         u == IF t # <<>> /\ t[1] \in {"-", "+"} THEN Tail(t) ELSE t
         ds == DigitPrefix(u)
    IN IF ds = <<>> THEN [nan |-> TRUE, val |-> 0]
       ELSE [nan |-> FALSE, val |-> IF neg THEN 0 - DigitsValue(ds) ELSE DigitsValue(ds)]

(***************************************************************************)
(* Percent decoding: decodeURIComponent and URLSearchParams                *)
(***************************************************************************)

\* the characters of codes 32..126, in order (code 96 is written <bt>)
Ascii == <<
    " ", "!", "\"", "#", "$", "%", "&", "'", "(", ")", "*", "+",
    ",", "-", ".", "/", "0", "1", "2", "3", "4", "5", "6", "7",
    "8", "9", ":", ";", "<", "=", ">", "?", "@", "A", "B", "C",
    "D", "E", "F", "G", "H", "I", "J", "K", "L", "M", "N", "O",
    "P", "Q", "R", "S", "T", "U", "V", "W", "X", "Y", "Z", "[",
    "\\", "]", "^", "_", "<bt>", "a", "b", "c", "d", "e", "f", "g",
    "h", "i", "j", "k", "l", "m", "n", "o", "p", "q", "r", "s",
    "t", "u", "v", "w", "x", "y", "z", "{", "|", "}", "~">>

HexDigits == DigitSet \cup {"a", "b", "c", "d", "e", "f", "A", "B", "C", "D", "E", "F"}

HexVal(c) ==
    IF c \in DigitSet THEN DigitVal(c)
    ELSE CASE c \in {"a", "A"} -> 10
           [] c \in {"b", "B"} -> 11
           [] c \in {"c", "C"} -> 12
           [] c \in {"d", "D"} -> 13
           [] c \in {"e", "E"} -> 14
           [] OTHER -> 15

\* the character of a byte below 128; a control character is one opaque token
CharOfCode(code) == IF code \in 32..126 THEN Ascii[code - 31] ELSE "<ctl>"

\* whether s starts with a well-formed %XX escape
EscapeAt(s) == Len(s) >= 3 /\ s[1] = "%" /\ s[2] \in HexDigits /\ s[3] \in HexDigits

EscapeCode(s) == 16 * HexVal(s[2]) + HexVal(s[3])

\* decodeURIComponent: a "%" not followed by two hex digits, or a byte of 128
\* and more that starts no UTF-8 sequence of escapes, throws URIError
RECURSIVE DecodeURIComponent(_)
DecodeURIComponent(s) ==
    IF s = <<>> THEN [ok |-> TRUE, val |-> <<>>]
    ELSE IF s[1] # "%"
    THEN LET r == DecodeURIComponent(Tail(s))
         IN [ok |-> r.ok, val |-> <<s[1]>> \o r.val]
    ELSE IF ~EscapeAt(s) \/ EscapeCode(s) >= 128
    THEN [ok |-> FALSE, val |-> <<>>]
    ELSE LET r == DecodeURIComponent(From(s, 4))
         IN [ok |-> r.ok, val |-> <<CharOfCode(EscapeCode(s))>> \o r.val]

\* the decoding URLSearchParams applies to a name or a value: "+" is a space,
\* a well-formed escape is its byte, anything else stays as written
RECURSIVE FormDecode(_)
FormDecode(s) ==
    IF s = <<>> THEN <<>>
    ELSE IF s[1] = "+" THEN <<" ">> \o FormDecode(Tail(s))
    ELSE IF EscapeAt(s)
    THEN <<IF EscapeCode(s) >= 128 THEN "<fffd>" ELSE CharOfCode(EscapeCode(s))>>
             \o FormDecode(From(s, 4))
    ELSE <<s[1]>> \o FormDecode(Tail(s))

\* one "name=value" piece of a query string
QueryPair(piece) ==
    LET i == IndexOf(piece, "=")
    IN IF i = 0 THEN [name |-> FormDecode(piece), value |-> <<>>]
       ELSE [name |-> FormDecode(SubSeq(piece, 1, i - 1)),
             value |-> FormDecode(From(piece, i + 1))]

RECURSIVE QueryPairs(_)
QueryPairs(pieces) ==
    IF pieces = <<>> THEN <<>>
    ELSE (IF Head(pieces) = <<>> THEN <<>> ELSE <<QueryPair(Head(pieces))>>)
             \o QueryPairs(Tail(pieces))

\* new URLSearchParams(text): the pairs in the order written
URLSearchParams(text) ==
    QueryPairs(Split(IF text # <<>> /\ text[1] = "?" THEN Tail(text) ELSE text, "&"))

\* a lookup that returns the value of the last pair of that name
GetLast(params, name) ==
    IF \E i \in 1..Len(params) : params[i].name = name
    THEN params[CHOOSE i \in 1..Len(params) :
                    params[i].name = name
                    /\ \A j \in (i + 1)..Len(params) : params[j].name # name].value
    ELSE Null

\* URLSearchParams.prototype.get: the value of the first pair of that name
Get(params, name) ==
    IF \E i \in 1..Len(params) : params[i].name = name
    THEN params[CHOOSE i \in 1..Len(params) :
                    params[i].name = name /\ \A j \in 1..(i - 1) : params[j].name # name].value
    ELSE Null

(***************************************************************************)
(* Link decoder: parseVlessLink (vless.ts)                                 *)
(***************************************************************************)

\* the string literals of the decoder, as texts
S_vless == <<"v", "l", "e", "s", "s", ":", "/", "/">>

S_proxy_p == <<"p", "r", "o", "x", "y", "-", "p">>

K_flow == <<"f", "l", "o", "w">>

K_security == <<"s", "e", "c", "u", "r", "i", "t", "y">>

K_sni == <<"s", "n", "i">>

K_serverName == <<"s", "e", "r", "v", "e", "r", "N", "a", "m", "e">>

K_fp == <<"f", "p">>

K_fingerprint == <<"f", "i", "n", "g", "e", "r", "p", "r", "i", "n", "t">>

K_alpn == <<"a", "l", "p", "n">>

K_pbk == <<"p", "b", "k">>

K_sid == <<"s", "i", "d">>

K_spx == <<"s", "p", "x">>

K_allowInsecure == <<"a", "l", "l", "o", "w", "I", "n", "s", "e", "c", "u", "r", "e">>

K_type == <<"t", "y", "p", "e">>

K_path == <<"p", "a", "t", "h">>

K_host == <<"h", "o", "s", "t">>

K_ed == <<"e", "d">>

K_service == <<"s", "e", "r", "v", "i", "c", "e">>

V_none == <<"n", "o", "n", "e">>

V_tls == <<"t", "l", "s">>

V_reality == <<"r", "e", "a", "l", "i", "t", "y">>

V_tcp == <<"t", "c", "p">>

V_ws == <<"w", "s">>

V_grpc == <<"g", "r", "p", "c">>

V_http == <<"h", "t", "t", "p">>

V_quic == <<"q", "u", "i", "c">>

V_1 == <<"1">>

V_true == <<"t", "r", "u", "e">>

VALID_TRANSPORTS == {V_tcp, V_ws, V_grpc, V_http, V_quic}

VALID_SECURITY == {V_none, V_tls, V_reality}

VALID_FINGERPRINTS == {
    <<"c", "h", "r", "o", "m", "e">>,
    <<"f", "i", "r", "e", "f", "o", "x">>,
    <<"e", "d", "g", "e">>,
    <<"s", "a", "f", "a", "r", "i">>,
    <<"3", "6", "0">>,
    <<"q", "q">>,
    <<"i", "o", "s">>,
    <<"a", "n", "d", "r", "o", "i", "d">>,
    <<"r", "a", "n", "d", "o", "m">>,
    <<"r", "a", "n", "d", "o", "m", "i", "z", "e", "d">>}

\* a || b on string-or-null values
Or(a, b) == IF Falsy(a) THEN b ELSE a

\* a record without fields, the start of an object literal
NoFields == [k \in {} |-> TRUE]

\* a diagnostic: its fixed text and the text interpolated into it
Err(msg) == [msg |-> msg, arg |-> <<>>]

ErrArg(msg, a) == [msg |-> msg, arg |-> a]

\* the message of the URIError decodeURIComponent throws
URIMalformed == <<"URI malformed">>

\* ParseResult of a failed and of a successful decode
Failure(e, link, lineNumber) ==
    [success |-> FALSE, error |-> e, originalLink |-> link, lineNumber |-> lineNumber]

Success(outbound, link, lineNumber) ==
    [success |-> TRUE, outbound |-> outbound, originalLink |-> link,
     lineNumber |-> lineNumber]

\* const atIndex = mainPart.lastIndexOf("@")
AtIndex(mainPart) == LastIndexOf(mainPart, "@")

\* !uuid || uuid.length < 32
InvalidUuid(uuid) == uuid = <<>> \/ Len(uuid) < 32

\* isNaN(serverPort) || serverPort < 1 || serverPort > 65535
InvalidPort(p) == p.nan \/ p.val < 1 \/ p.val > 65535

\* MissingPbk with a weaker test: only an absent pbk counts, an empty one is accepted
MissingPbkNullOnly(pbk) == pbk = Null

\* !pbk
MissingPbk(pbk) == Falsy(pbk)

\* host and port of "host:port" or "[v6]:port": the diagnostic of the first
\* failed check, or the server and the parseInt of the port
ParseHostPort(hostPort) ==
    IF StartsWith(hostPort, <<"[">>)
    THEN LET bracketEnd == IndexOf(hostPort, "]")
             portPart == From(hostPort, bracketEnd + 1)
         IN IF bracketEnd = 0
            THEN [err |-> "Invalid IPv6 address format", server |-> <<>>,
                  port |-> ParseInt(<<>>)]
            ELSE IF ~StartsWith(portPart, <<":">>)
            THEN [err |-> "Missing port after IPv6 address", server |-> <<>>,
                  port |-> ParseInt(<<>>)]
            ELSE [err |-> "", server |-> SubSeq(hostPort, 2, bracketEnd - 1),
                  port |-> ParseInt(Tail(portPart))]
    ELSE LET colonIndex == LastIndexOf(hostPort, ":")
         IN IF colonIndex = 0
            THEN [err |-> "Missing port", server |-> <<>>, port |-> ParseInt(<<>>)]
            ELSE [err |-> "", server |-> SubSeq(hostPort, 1, colonIndex - 1),
                  port |-> ParseInt(From(hostPort, colonIndex + 1))]

\* the TLS block of a link with security tls or reality: the diagnostic, or
\* the TlsConfig
VlessTls(params, security, server) ==
    LET sni == Or(Get(params, K_sni), Get(params, K_serverName))
        t1 == IF ~Falsy(sni) THEN [enabled |-> TRUE, server_name |-> sni]
              ELSE IF security = V_tls THEN [enabled |-> TRUE, server_name |-> server]
              ELSE [enabled |-> TRUE]
        fp == Or(Get(params, K_fp), Get(params, K_fingerprint))
        t2 == IF ~Falsy(fp) /\ fp \in VALID_FINGERPRINTS
              THEN t1 @@ [utls |-> [enabled |-> TRUE, fingerprint |-> fp]]
              ELSE t1
        alpn == Get(params, K_alpn)
        t3 == IF ~Falsy(alpn) THEN t2 @@ [alpn |-> Split(alpn, ",")] ELSE t2
        pbk == Get(params, K_pbk)
        sid == Or(Get(params, K_sid), <<>>)
        spx == Get(params, K_spx)
        t4 == IF security = V_reality
              THEN (IF "server_name" \notin DOMAIN t3 /\ ~Falsy(spx)
                    THEN [server_name |-> spx] ELSE NoFields)
                   @@ t3
                   @@ [reality |-> [enabled |-> TRUE, public_key |-> pbk, short_id |-> sid]]
              ELSE t3
        allowInsecure == Get(params, K_allowInsecure)
        t5 == IF allowInsecure = V_1 \/ allowInsecure = V_true
              THEN t4 @@ [insecure |-> TRUE] ELSE t4
    IN IF security = V_reality /\ MissingPbk(pbk)
       THEN [err |-> "Reality requires public key (pbk)", tls |-> NoFields]
       ELSE [err |-> "", tls |-> t5]

\* buildTransport of vless.ts: the Transport of a type other than tcp, or the
\* URIError of decodeURIComponent(path)
BuildTransport(type, params) ==
    LET path == Get(params, K_path)
        dpath == IF Falsy(path) THEN [ok |-> TRUE, val |-> <<>>]
                 ELSE DecodeURIComponent(path)
        pathField == IF Falsy(path) THEN NoFields ELSE [path |-> dpath.val]
        host == Get(params, K_host)
        ed == Get(params, K_ed)
        serviceName == Or(Get(params, <<"s", "e", "r", "v", "i", "c", "e", "N", "a", "m", "e">>),
                          Get(params, K_service))
    IN CASE type = V_ws ->
              IF ~dpath.ok THEN [threw |-> TRUE, val |-> NoFields]
              ELSE [threw |-> FALSE,
                    val |-> [type |-> "ws"] @@ pathField
                        @@ (IF Falsy(host) THEN NoFields ELSE [headers |-> [Host |-> host]])
                        @@ (IF Falsy(ed) THEN NoFields
                            ELSE [max_early_data |-> ParseInt(ed),
                                  early_data_header_name |-> "Sec-WebSocket-Protocol"])]
         [] type = V_grpc ->
              [threw |-> FALSE,
               val |-> [type |-> "grpc"]
                   @@ (IF Falsy(serviceName) THEN NoFields
                       ELSE [service_name |-> serviceName])]
         [] type = V_http ->
              IF ~dpath.ok THEN [threw |-> TRUE, val |-> NoFields]
              ELSE [threw |-> FALSE,
                    val |-> [type |-> "http"] @@ pathField
                        @@ (IF Falsy(host) THEN NoFields ELSE [host |-> Split(host, ",")])]
         [] OTHER -> [threw |-> FALSE, val |-> [type |-> "quic"]]

\* the tag of a link: the decoded fragment, else defaultTag, else proxy-p<line>
LinkTag(fragment, lineNumber, defaultTag) ==
    IF ~Falsy(fragment) THEN DecodeURIComponent(fragment).val
    ELSE IF ~Falsy(defaultTag) THEN defaultTag
    ELSE S_proxy_p \o NumText(lineNumber)

\* the part of parseVlessLink after host and port were accepted: query
\* parameters, flow, security, TLS, transport
VlessParams(queryString, tag, server, serverPort, uuid, link, lineNumber) ==
    LET params == URLSearchParams(IF Falsy(queryString) THEN <<>> ELSE queryString)
        base == [type |-> "vless", tag |-> tag, server |-> server,
                 server_port |-> serverPort, uuid |-> uuid]
        flow == Get(params, K_flow)
        o1 == IF ~Falsy(flow) THEN base @@ [flow |-> flow] ELSE base
        security == Or(Get(params, K_security), V_none)
        tls == VlessTls(params, security, server)
        o2 == IF security \in {V_tls, V_reality} THEN o1 @@ [tls |-> tls.tls] ELSE o1
        transportType == Or(Get(params, K_type), V_tcp)
        transport == BuildTransport(transportType, params)
    IN IF security \notin VALID_SECURITY
       THEN Failure(ErrArg("Invalid security type: ", security), link, lineNumber)
       ELSE IF security \in {V_tls, V_reality} /\ tls.err # ""
       THEN Failure(Err(tls.err), link, lineNumber)
       ELSE IF transportType \notin VALID_TRANSPORTS
       THEN Failure(ErrArg("Invalid transport type: ", transportType), link, lineNumber)
       ELSE IF transportType = V_tcp THEN Success(o2, link, lineNumber)
       ELSE IF transport.threw
       THEN Failure(ErrArg("Parse error: ", URIMalformed), link, lineNumber)
       ELSE Success(o2 @@ [transport |-> transport.val], link, lineNumber)

\* parseVlessLink(link, lineNumber, defaultTag)
ParseVlessLink(link, lineNumber, defaultTag) ==
    LET trimmedLink == Trim(link)
        withoutProtocol == From(trimmedLink, 9)
        parts == Split(withoutProtocol, "#")
        mainPart == parts[1]
        fragment == IF Len(parts) >= 2 THEN parts[2] ELSE Null
        atIndex == AtIndex(mainPart)
        uuid == SubSeq(mainPart, 1, atIndex - 1)
        hostPortParams == From(mainPart, atIndex + 1)
        hp == Split(hostPortParams, "?")
        hostPort == hp[1]
        queryString == IF Len(hp) >= 2 THEN hp[2] ELSE Null
        parsed == ParseHostPort(hostPort)
    IN IF trimmedLink = <<>>
       THEN Failure(Err("Empty link"), link, lineNumber)
       ELSE IF ~StartsWith(trimmedLink, S_vless)
       THEN Failure(Err("Link must start with vless://"), link, lineNumber)
       ELSE IF ~Falsy(fragment) /\ ~DecodeURIComponent(fragment).ok
       THEN Failure(ErrArg("Parse error: ", URIMalformed), link, lineNumber)
       ELSE IF atIndex = 0
       THEN Failure(Err("Invalid format: missing @ separator"), link, lineNumber)
       ELSE IF InvalidUuid(uuid)
       THEN Failure(Err("Invalid UUID format"), link, lineNumber)
       ELSE IF parsed.err # ""
       THEN Failure(Err(parsed.err), link, lineNumber)
       ELSE IF parsed.server = <<>>
       THEN Failure(Err("Missing server address"), link, lineNumber)
       ELSE IF InvalidPort(parsed.port)
       THEN Failure(Err("Invalid port number"), link, lineNumber)
       ELSE VlessParams(queryString, LinkTag(fragment, lineNumber, defaultTag),
                        parsed.server, parsed.port.val, uuid, link, lineNumber)

(***************************************************************************)
(* Protocol dispatcher and batch coordinator (parsers/index.ts)            *)
(***************************************************************************)

\* DetectProtocol without toLowerCase: the scheme is compared as written, without
\* toLowerCase
DetectProtocolCaseSensitive(link) ==
    LET trimmed == Trim(link)
    IN IF StartsWith(trimmed, S_vless) THEN "vless"
       ELSE IF StartsWith(trimmed, <<"v", "m", "e", "s", "s", ":", "/", "/">>) THEN "vmess"
       ELSE IF StartsWith(trimmed, <<"t", "r", "o", "j", "a", "n", ":", "/", "/">>) THEN "trojan"
       ELSE IF StartsWith(trimmed, <<"s", "s", ":", "/", "/">>) THEN "ss"
       ELSE IF StartsWith(trimmed, <<"h", "y", "2", ":", "/", "/">>)
               \/ StartsWith(trimmed, <<"h", "y", "s", "t", "e", "r", "i", "a", "2", ":", "/", "/">>)
       THEN "hy2"
       ELSE IF StartsWith(trimmed, <<"t", "u", "i", "c", ":", "/", "/">>) THEN "tuic"
       ELSE ""

\* detectProtocol: the protocol of the scheme prefix, "" for null
DetectProtocol(link) ==
    LET trimmed == ToLower(Trim(link))
    IN IF StartsWith(trimmed, S_vless) THEN "vless"
       ELSE IF StartsWith(trimmed, <<"v", "m", "e", "s", "s", ":", "/", "/">>) THEN "vmess"
       ELSE IF StartsWith(trimmed, <<"t", "r", "o", "j", "a", "n", ":", "/", "/">>) THEN "trojan"
       ELSE IF StartsWith(trimmed, <<"s", "s", ":", "/", "/">>) THEN "ss"
       ELSE IF StartsWith(trimmed, <<"h", "y", "2", ":", "/", "/">>)
               \/ StartsWith(trimmed, <<"h", "y", "s", "t", "e", "r", "i", "a", "2", ":", "/", "/">>)
       THEN "hy2"
       ELSE IF StartsWith(trimmed, <<"t", "u", "i", "c", ":", "/", "/">>) THEN "tuic"
       ELSE ""

\* parseProxyLink, with the decoder it handed the link to ("" when none)
ParseProxyLinkRouted(link, lineNumber) ==
    LET protocol == DetectProtocol(link)
    IN IF protocol = ""
       THEN [callee |-> "",
             res |-> Failure(Err("Unsupported or invalid protocol"), link, lineNumber)]
       ELSE IF protocol = "vless"
       THEN [callee |-> "parseVlessLink", res |-> ParseVlessLink(link, lineNumber, Null)]
       ELSE [callee |-> "",
             res |-> Failure(ErrArg("Protocol is not yet supported", <<protocol>>),
                             link, lineNumber)]

\* parseProxyLink(link, lineNumber)
ParseProxyLink(link, lineNumber) == ParseProxyLinkRouted(link, lineNumber).res

(***************************************************************************)
(* Inputs of the link decoder and the dispatcher                           *)
(***************************************************************************)

\* a credential of n characters, written like a UUID
Credential(n) == [i \in 1..n |-> IF i \in {9, 14, 19, 24} THEN "-" ELSE "1"]

Uuid36 == Credential(36)

Creds == {Uuid36, Credential(32), Credential(31), <<>>}

GoodHostPort == <<"a", ".", "i", "o", ":", "4", "4", "3">>

GoodHostPort6 == <<"[", ":", ":", "1", "]", ":", "8", "4", "4", "3">>

\* host:port texts: well-formed, and one for each check of lines 108-160
HostPorts == {
    <<"a", ".", "i", "o", ":", "4", "4", "3">>,
    <<"[", ":", ":", "1", "]", ":", "8", "4", "4", "3">>,
    <<"[", ":", ":", "1", "]", "4", "4", "3">>,
    <<"[", ":", ":", "1">>,
    <<"[", "]", ":", "4", "4", "3">>,
    <<"a", ".", "i", "o">>,
    <<":", "4", "4", "3">>,
    <<"a", ".", "i", "o", ":", "0">>,
    <<"a", ".", "i", "o", ":", "1">>,
    <<"a", ".", "i", "o", ":", "6", "5", "5", "3", "5">>,
    <<"a", ".", "i", "o", ":", "6", "5", "5", "3", "6">>,
    <<"a", ".", "i", "o", ":", "x">>,
    <<"a", ".", "i", "o", ":", "4", "4", "3", "x">>,
    <<"f", "d", "0", "0", ":", ":", "2", ":", "4", "4", "3">>}

\* scheme prefixes: the recognised ones, other letter cases, unknown, none
Schemes == {
    <<"v", "l", "e", "s", "s", ":", "/", "/">>,
    <<"V", "L", "E", "S", "S", ":", "/", "/">>,
    <<"V", "l", "e", "s", "s", ":", "/", "/">>,
    <<"v", "m", "e", "s", "s", ":", "/", "/">>,
    <<"V", "M", "E", "S", "S", ":", "/", "/">>,
    <<"t", "r", "o", "j", "a", "n", ":", "/", "/">>,
    <<"s", "s", ":", "/", "/">>,
    <<"h", "y", "2", ":", "/", "/">>,
    <<"h", "y", "s", "t", "e", "r", "i", "a", "2", ":", "/", "/">>,
    <<"t", "u", "i", "c", ":", "/", "/">>,
    <<"h", "t", "t", "p", ":", "/", "/">>,
    <<>>}

P_reality == <<"s", "e", "c", "u", "r", "i", "t", "y", "=", "r", "e", "a", "l", "i", "t", "y">>

P_pbk == <<"p", "b", "k", "=", "P", "B", "K", "V", "A", "L", "U", "E">>

\* the security parameter: absent (no piece), each valid value, an unknown one
SecurityPieces == {
    <<>>,
    <<"s", "e", "c", "u", "r", "i", "t", "y", "=", "n", "o", "n", "e">>,
    <<"s", "e", "c", "u", "r", "i", "t", "y", "=", "t", "l", "s">>,
    <<"s", "e", "c", "u", "r", "i", "t", "y", "=", "r", "e", "a", "l", "i", "t", "y">>,
    <<"s", "e", "c", "u", "r", "i", "t", "y", "=", "x", "t", "l", "s">>}

\* the pbk parameter: absent, present, present and empty
PbkPieces == {
    <<>>,
    <<"p", "b", "k", "=", "P", "B", "K", "V", "A", "L", "U", "E">>,
    <<"p", "b", "k", "=">>}

\* the type parameter: absent, each valid value, an unknown one
TypePieces == {
    <<>>,
    <<"t", "y", "p", "e", "=", "t", "c", "p">>,
    <<"t", "y", "p", "e", "=", "w", "s">>,
    <<"t", "y", "p", "e", "=", "g", "r", "p", "c">>,
    <<"t", "y", "p", "e", "=", "h", "t", "t", "p">>,
    <<"t", "y", "p", "e", "=", "q", "u", "i", "c">>,
    <<"t", "y", "p", "e", "=", "k", "c", "p">>}

\* one more parameter
ExtraPieces == {
    <<>>,
    <<"s", "n", "i", "=", "b", ".", "i", "o">>,
    <<"s", "e", "r", "v", "e", "r", "N", "a", "m", "e", "=", "c", ".", "i", "o">>,
    <<"f", "p", "=", "c", "h", "r", "o", "m", "e">>,
    <<"f", "i", "n", "g", "e", "r", "p", "r", "i", "n", "t", "=", "o", "p", "e", "r", "a">>,
    <<"a", "l", "p", "n", "=", "h", "2", ",", "h", "3">>,
    <<"s", "i", "d", "=", "a", "b", "c">>,
    <<"s", "p", "x", "=", "d", ".", "i", "o">>,
    <<"a", "l", "l", "o", "w", "I", "n", "s", "e", "c", "u", "r", "e", "=", "1">>,
    <<"f", "l", "o", "w", "=", "x", "t", "l", "s", "-", "r", "p", "r", "x", "-", "v", "i", "s", "i", "o", "n">>,
    <<"p", "a", "t", "h", "=", "%", "2", "F", "w", "s">>,
    <<"p", "a", "t", "h", "=", "%", "2", "5">>,
    <<"h", "o", "s", "t", "=", "e", ".", "i", "o", ",", "f", ".", "i", "o">>,
    <<"e", "d", "=", "2", "0", "4", "8">>,
    <<"e", "d", "=", "x">>,
    <<"s", "e", "r", "v", "i", "c", "e", "N", "a", "m", "e", "=", "s", "v", "c">>,
    <<"s", "n", "i", "=", "u", "s", "e", "r", "@", "b", ".", "i", "o">>}

DuplicateQueries == {
    <<<<"s", "e", "c", "u", "r", "i", "t", "y", "=", "n", "o", "n", "e">>, <<"s", "e", "c", "u", "r", "i", "t", "y", "=", "r", "e", "a", "l", "i", "t", "y">>>>,
    <<<<"s", "e", "c", "u", "r", "i", "t", "y", "=", "r", "e", "a", "l", "i", "t", "y">>, <<"s", "e", "c", "u", "r", "i", "t", "y", "=", "n", "o", "n", "e">>>>,
    <<<<"s", "e", "c", "u", "r", "i", "t", "y", "=", "t", "l", "s">>, <<"s", "n", "i", "=", "b", ".", "i", "o">>, <<"s", "n", "i", "=", "c", ".", "i", "o">>>>,
    <<<<"t", "y", "p", "e", "=", "w", "s">>, <<"t", "y", "p", "e", "=", "k", "c", "p">>>>,
    <<<<"t", "y", "p", "e", "=", "k", "c", "p">>, <<"t", "y", "p", "e", "=", "w", "s">>>>,
    <<<<"s", "e", "c", "u", "r", "i", "t", "y", "=", "r", "e", "a", "l", "i", "t", "y">>, <<"p", "b", "k", "=">>, <<"p", "b", "k", "=", "P", "B", "K", "V", "A", "L", "U", "E">>>>,
    <<<<"s", "e", "c", "u", "r", "i", "t", "y", "=", "r", "e", "a", "l", "i", "t", "y">>, <<"p", "b", "k", "=", "P", "B", "K", "V", "A", "L", "U", "E">>, <<"p", "b", "k", "=", "K", "2">>>>,
    <<<<"f", "l", "o", "w", "=", "a">>, <<"f", "l", "o", "w", "=", "b">>>>}

\* texts after the #
Fragments == {
    <<"m", "y", "s", "e", "r", "v", "e", "r">>,
    <<"%">>,
    <<"%", "4", "1", "b">>,
    <<"p", "r", "o", "x", "y", "-", "p", "r", "e", "m", "i", "u", "m">>,
    <<"p", "r", "o", "x", "y", "-", "p", "9">>,
    <<>>}

\* the pieces of a query that are written (an absent parameter has no piece)
Pieces(ps) == SelectSeq(ps, LAMBDA p : p # <<>>)

\* the text of a link made of its parts; frag = Null for no "#"
LinkText(sh) ==
    sh.pre \o sh.scheme \o sh.cred \o (IF sh.at THEN <<"@">> ELSE <<>>) \o sh.hostPort
        \o (IF sh.query = <<>> THEN <<>> ELSE <<"?">> \o Join(sh.query, "&"))
        \o (IF sh.frag = Null THEN <<>> ELSE <<"#">> \o sh.frag)

Shape(pre, scheme, cred, at, hostPort, query, frag) ==
    [pre |-> pre, scheme |-> scheme, cred |-> cred, at |-> at, hostPort |-> hostPort,
     query |-> query, frag |-> frag]

\* links that differ in credential, separator, host:port and fragment
StructureShapes ==
    {Shape(<<>>, S_vless, c, at, hp, q, f) :
        c \in Creds, at \in BOOLEAN, hp \in HostPorts,
        q \in {<<>>, <<P_reality>>, <<P_reality, P_pbk>>},
        f \in {Null, <<"m", "y">>, <<"%">>}}

\* links that differ in scheme and leading white space
SchemeShapes ==
    {Shape(pre, s, Uuid36, TRUE, GoodHostPort, q, Null) :
        pre \in {<<>>, <<" ">>}, s \in Schemes,
        q \in {<<>>, <<P_reality>>, <<P_reality, P_pbk>>}}

\* well-formed links that differ in their query parameters
QueryShapes ==
    {Shape(<<>>, S_vless, Uuid36, TRUE, hp, Pieces(<<sec, pbk, typ, x>>), Null) :
        hp \in {GoodHostPort, GoodHostPort6}, sec \in SecurityPieces, pbk \in PbkPieces,
        typ \in TypePieces, x \in ExtraPieces}
    \cup {Shape(<<>>, S_vless, Uuid36, TRUE, GoodHostPort, q, Null) : q \in DuplicateQueries}

\* well-formed links that differ in their fragment
TagShapes ==
    {Shape(<<>>, S_vless, Uuid36, TRUE, GoodHostPort, <<>>, f) : f \in Fragments \cup {Null}}

MaxLineNumber == 2

DefaultTags == {Null, <<>>, <<"d", "f", "l", "t">>}

VlessArg(sh, n, d) ==
    [link |-> LinkText(sh), lineNumber |-> n, defaultTag |-> d, shape |-> sh]

VlessArgs ==
    {VlessArg(sh, 1, Null) : sh \in StructureShapes \cup SchemeShapes \cup QueryShapes}
    \cup {VlessArg(sh, n, d) : sh \in TagShapes, n \in 1..MaxLineNumber, d \in DefaultTags}

ProxyArgs ==
    {VlessArg(sh, n, Null) :
        sh \in StructureShapes \cup SchemeShapes \cup QueryShapes \cup TagShapes,
        n \in 1..MaxLineNumber}

(***************************************************************************)
(* Calls                                                                   *)
(***************************************************************************)

\* the error state of the import step when no error is shown: setError(null)
NoError == [shown |-> FALSE, fallback |-> "", errors |-> <<>>]

Init ==
    /\ pc = "idle"
    /\ call = ""
    /\ arg = <<>>
    /\ ret = <<>>
    /\ callee = ""
    /\ memo = <<>>
    /\ store = [outbounds |-> <<>>, endpoints |-> <<>>, dnsPreset |-> "google",
                inboundPreset |-> "tun", step |-> 1]
    /\ error = NoError

\* the caller takes the returned value; nothing of the call survives
Return ==
    /\ pc = "done"
    /\ pc' = "idle"
    /\ call' = ""
    /\ arg' = <<>>
    /\ ret' = <<>>
    /\ callee' = ""
    /\ UNCHANGED <<memo, store, error>>

CallParseVlessLink ==
    /\ pc = "idle"
    /\ \E a \in VlessArgs :
          /\ arg' = a
          /\ ret' = ParseVlessLink(a.link, a.lineNumber, a.defaultTag)
    /\ call' = "parseVlessLink"
    /\ callee' = ""
    /\ pc' = "done"
    /\ UNCHANGED <<memo, store, error>>

CallParseProxyLink ==
    /\ pc = "idle"
    /\ \E a \in ProxyArgs :
          LET r == ParseProxyLinkRouted(a.link, a.lineNumber)
          IN /\ arg' = a
             /\ ret' = r.res
             /\ callee' = r.callee
    /\ call' = "parseProxyLink"
    /\ pc' = "done"
    /\ UNCHANGED <<memo, store, error>>

NextLink == CallParseVlessLink \/ CallParseProxyLink \/ Return

SpecLink == Init /\ [][NextLink]_vars

(***************************************************************************)
(* Batch coordinators: parseProxyLinks (index.ts), parseVlessLinks         *)
(* (vless.ts)                                                              *)
(***************************************************************************)

\* a line the loops skip: empty after trim, or a # or // comment
SkippedLine(line) ==
    line = <<>> \/ StartsWith(line, <<"#">>) \/ StartsWith(line, <<"/", "/">>)

\* lines.filter((line) => line.trim())
RECURSIVE NonBlank(_)
NonBlank(lines) ==
    IF lines = <<>> THEN <<>>
    ELSE (IF Trim(Head(lines)) = <<>> THEN <<>> ELSE <<Head(lines)>>) \o NonBlank(Tail(lines))

\* line.length > 50 ? line.slice(0, 50) + "..." : line
Truncated(line) ==
    IF Len(line) > 50 THEN SubSeq(line, 1, 50) \o <<".", ".", ".">> ELSE line

\* "const x = v": v is evaluated once and F applied to its value
Const(v, F(_)) == CHOOSE r \in {F(x) : x \in {v}} : TRUE

\* the outbound with the tag parseProxyLinks gives it
Retagged(outbound, proxyCounter) ==
    IF StartsWith(outbound.tag, S_proxy_p)
    THEN [outbound EXCEPT !.tag = S_proxy_p \o NumText(proxyCounter)]
    ELSE outbound

\* ProxyLinksStep with proxyCounter++ after every line, failed or not
ProxyLinksStepCountsFailures(st, rawLine, i) ==
    Const(Trim(rawLine), LAMBDA line :
        IF SkippedLine(line) THEN st
        ELSE Const(ParseProxyLink(line, i), LAMBDA result :
            IF result.success
            THEN [st EXCEPT !.outbounds = Append(@, Retagged(result.outbound, st.proxyCounter)),
                            !.proxyCounter = @ + 1]
            ELSE [st EXCEPT !.errors = Append(@, [lineNumber |-> i,
                                                   link |-> Truncated(line),
                                                   error |-> result.error]),
                            !.proxyCounter = @ + 1]))

\* one turn of the loop of parseProxyLinks on lines[i] (1-based i, which is
\* lineNumber): st holds outbounds, errors and proxyCounter
ProxyLinksStep(st, rawLine, i) ==
    Const(Trim(rawLine), LAMBDA line :
        IF SkippedLine(line) THEN st
        ELSE Const(ParseProxyLink(line, i), LAMBDA result :
            IF result.success
            THEN [st EXCEPT !.outbounds = Append(@, Retagged(result.outbound, st.proxyCounter)),
                            !.proxyCounter = @ + 1]
            ELSE [st EXCEPT !.errors = Append(@, [lineNumber |-> i,
                                                   link |-> Truncated(line),
                                                   error |-> result.error])]))

RECURSIVE ProxyLinksLoop(_, _, _)
ProxyLinksLoop(st, lines, i) ==
    IF i > Len(lines) THEN st
    ELSE Const(ProxyLinksStep(st, lines[i], i), LAMBDA next :
             ProxyLinksLoop(next, lines, i + 1))

\* parseProxyLinks(text)
ParseProxyLinks(text) ==
    Const(NonBlank(Split(text, "\n")), LAMBDA lines :
        Const(ProxyLinksLoop([outbounds |-> <<>>, errors |-> <<>>, proxyCounter |-> 1],
                             lines, 1), LAMBDA st :
            [outbounds |-> st.outbounds, errors |-> st.errors, totalLinks |-> Len(lines),
             successCount |-> Len(st.outbounds), errorCount |-> Len(st.errors)]))

\* one turn of the loop of parseVlessLinks on the line numbered lineNumber
VlessLinksStep(st, rawLine, lineNumber) ==
    Const(Trim(rawLine), LAMBDA trimmed :
        IF SkippedLine(trimmed) THEN st
        ELSE IF ~StartsWith(trimmed, S_vless) THEN st
        ELSE Const(ParseVlessLink(trimmed, lineNumber, Null), LAMBDA result :
            IF result.success
            THEN [st EXCEPT !.outbounds = Append(@, result.outbound)]
            ELSE [st EXCEPT !.errors = Append(@, [lineNumber |-> lineNumber,
                                                   link |-> trimmed,
                                                   error |-> result.error])]))

RECURSIVE VlessLinksLoop(_, _, _)
VlessLinksLoop(st, lines, i) ==
    IF i > Len(lines) THEN st
    ELSE Const(VlessLinksStep(st, lines[i], i), LAMBDA next :
             VlessLinksLoop(next, lines, i + 1))

\* parseVlessLinks(input)
ParseVlessLinks(input) ==
    Const(Split(input, "\n"), LAMBDA lines :
        Const(VlessLinksLoop([outbounds |-> <<>>, errors |-> <<>>], lines, 1), LAMBDA st :
            [outbounds |-> st.outbounds, errors |-> st.errors,
             totalLinks |-> Len(st.outbounds) + Len(st.errors),
             successCount |-> Len(st.outbounds), errorCount |-> Len(st.errors)]))

(***************************************************************************)
(* Inputs of the batch coordinators                                        *)
(***************************************************************************)

\* a link that decodes, with the tag the decoder synthesizes
LineDefault == S_vless \o Uuid36 \o <<"@">> \o GoodHostPort

\* links that decode, with a tag of their own
LineTagged == LineDefault \o <<"#", "m", "y">>

LineProxyTagged == LineDefault \o <<"#", "p", "r", "o", "x", "y", "-", "p", "r", "e", "m", "i", "u", "m">>

\* a vless link of more than 50 characters that fails (port 0)
LineBadPort == S_vless \o Uuid36 \o <<"@">> \o <<"a", ".", "i", "o", ":", "0", "?", "s", "e", "c", "u", "r", "i", "t", "y", "=", "r", "e", "a", "l", "i", "t", "y">>

\* a recognised protocol without a decoder
LineVmess == <<"v", "m", "e", "s", "s", ":", "/", "/", "x">>

\* the scheme in capitals
LineUpper == <<"V", "L", "E", "S", "S", ":", "/", "/">> \o Uuid36 \o <<"@">> \o GoodHostPort

LineBlank == <<" ">>

LineHash == <<"#", " ", "c">>

LineSlashes == <<"/", "/", " ", "c">>

LinkLines == {LineDefault, LineTagged, LineProxyTagged, LineBadPort, LineVmess, LineUpper}

BatchLines == LinkLines \cup {LineBlank, LineHash, LineSlashes}

MaxLines == 3

BatchArgs ==
    {[text |-> Join(ls, "\n"), lines |-> ls] :
        ls \in UNION {[1..n -> BatchLines] : n \in 0..MaxLines}}

CallParseProxyLinks ==
    /\ pc = "idle"
    /\ \E a \in BatchArgs :
          /\ arg' = a
          /\ ret' = ParseProxyLinks(a.text)
    /\ call' = "parseProxyLinks"
    /\ callee' = ""
    /\ pc' = "done"
    /\ UNCHANGED <<memo, store, error>>

CallParseVlessLinks ==
    /\ pc = "idle"
    /\ \E a \in BatchArgs :
          /\ arg' = a
          /\ ret' = ParseVlessLinks(a.text)
    /\ call' = "parseVlessLinks"
    /\ callee' = ""
    /\ pc' = "done"
    /\ UNCHANGED <<memo, store, error>>

NextBatch == CallParseProxyLinks \/ CallParseVlessLinks \/ Return

SpecBatch == Init /\ [][NextBatch]_vars

(***************************************************************************)
(* Claims about the link decoder, the dispatcher and the batch coordinator *)
(***************************************************************************)

Returned(f) == pc = "done" /\ call = f

RealityDiagnostic == Err("Reality requires public key (pbk)")

\* a decimal port in 1..65535
DecimalPort(p) ==
    p # <<>> /\ (\A i \in 1..Len(p) : p[i] \in DigitSet) /\ DigitsValue(p) \in 1..65535

\* "host:port" with a non-empty host, or "[v6]:port" with a non-empty v6
WellFormedHostPort(hp) ==
    IF StartsWith(hp, <<"[">>)
    THEN LET j == IndexOf(hp, "]")
         IN j > 2 /\ Len(hp) > j /\ hp[j + 1] = ":" /\ DecimalPort(From(hp, j + 2))
    ELSE LET i == LastIndexOf(hp, ":")
         IN i > 1 /\ DecimalPort(From(hp, i + 1))

\* the query parameters as written in the link
WrittenParams(sh) == URLSearchParams(Join(sh.query, "&"))

\* no piece of the query holds an "@" or a "?"
PlainQuery(sh) ==
    \A i \in 1..Len(sh.query) : ~Includes(sh.query[i], "@") /\ ~Includes(sh.query[i], "?")

\* the link is well-formed up to its query string
WellFormedHead(sh) ==
    /\ sh.scheme = S_vless
    /\ sh.at
    /\ Len(sh.cred) >= 32
    /\ WellFormedHostPort(sh.hostPort)
    /\ PlainQuery(sh)
    /\ Falsy(sh.frag) \/ DecodeURIComponent(sh.frag).ok

\* the text of the link has a piece security=reality and no pbk piece
CarriesRealityNoPbk(sh) ==
    /\ \E i \in 1..Len(sh.query) : sh.query[i] = P_reality
    /\ \A i \in 1..Len(sh.query) : ~StartsWith(sh.query[i], <<"p", "b", "k">>)

\* C2: every link text with security=reality and no pbk fails with
\* the Reality diagnostic and no other
C2_RealityAlwaysSpecific ==
    (Returned("parseVlessLink") /\ CarriesRealityNoPbk(arg.shape))
        => (~ret.success /\ ret.error = RealityDiagnostic)

\* C2 restricted: a link that is well-formed up to its query string, whose first
\* security parameter is reality and whose first pbk parameter is absent or
\* empty, fails with exactly "Reality requires public key (pbk)"
C2_RealityNeedsPbk ==
    (/\ Returned("parseVlessLink")
     /\ WellFormedHead(arg.shape)
     /\ Get(WrittenParams(arg.shape), K_security) = V_reality
     /\ Falsy(Get(WrittenParams(arg.shape), K_pbk)))
        => (~ret.success /\ ret.error = RealityDiagnostic)

\* C2 restricted, its case: such a link, with an empty pbk and an unknown transport type as
\* well, got the Reality diagnostic
C2_Witness ==
    /\ Returned("parseVlessLink")
    /\ WellFormedHead(arg.shape)
    /\ Get(WrittenParams(arg.shape), K_security) = V_reality
    /\ Get(WrittenParams(arg.shape), K_pbk) = <<>>
    /\ Get(WrittenParams(arg.shape), K_type) = <<"k", "c", "p">>
    /\ ~ret.success
    /\ ret.error = RealityDiagnostic

\* the parameter names of the query, in the order written
ParamNames(sh) == [i \in 1..Len(WrittenParams(sh)) |-> WrittenParams(sh)[i].name]

\* no parameter is written twice
NoDuplicates(sh) ==
    \A i, j \in 1..Len(ParamNames(sh)) : ParamNames(sh)[i] = ParamNames(sh)[j] => i = j

\* a valid link: vless:// scheme, a credential of 36 characters or more, a
\* well-formed host:port or [v6]:port, a recognised security (reality with its
\* public key) and transport, each parameter written once, a decodable tag
ValidLink(sh) ==
    /\ sh.pre = <<>>
    /\ sh.scheme = S_vless
    /\ sh.at
    /\ Len(sh.cred) >= 36
    /\ WellFormedHostPort(sh.hostPort)
    /\ NoDuplicates(sh)
    /\ Or(Get(WrittenParams(sh), K_security), V_none) \in VALID_SECURITY
    /\ Get(WrittenParams(sh), K_security) = V_reality => ~Falsy(Get(WrittenParams(sh), K_pbk))
    /\ Or(Get(WrittenParams(sh), K_type), V_tcp) \in VALID_TRANSPORTS
    /\ Falsy(sh.frag) \/ DecodeURIComponent(sh.frag).ok

\* what every successful result satisfies, by C7
SoundOutbound(o) == o.server_port \in 1..65535 /\ o.server # <<>> /\ Len(o.uuid) >= 32

\* C7 as claimed: every valid link decodes, and every successful result has a
\* port in 1..65535, a non-empty server and a credential of 32 characters or more
C7_ValidLinkDecodes ==
    Returned("parseVlessLink")
        => /\ ValidLink(arg.shape) => ret.success
           /\ ret.success => SoundOutbound(ret.outbound)

\* the protocol a scheme prefix names, "" for none
ProtocolOfScheme(s) ==
    CASE ToLower(s) = S_vless -> "vless"
      [] ToLower(s) = <<"v", "m", "e", "s", "s", ":", "/", "/">> -> "vmess"
      [] ToLower(s) = <<"t", "r", "o", "j", "a", "n", ":", "/", "/">> -> "trojan"
      [] ToLower(s) = <<"s", "s", ":", "/", "/">> -> "ss"
      [] ToLower(s) = <<"h", "y", "2", ":", "/", "/">> -> "hy2"
      [] ToLower(s) = <<"h", "y", "s", "t", "e", "r", "i", "a", "2", ":", "/", "/">> -> "hy2"
      [] ToLower(s) = <<"t", "u", "i", "c", ":", "/", "/">> -> "tuic"
      [] OTHER -> ""

Unimplemented == {"vmess", "trojan", "ss", "hy2", "tuic"}

NotYetSupported(p) == ErrArg("Protocol is not yet supported", <<p>>)

UnsupportedProtocol == Err("Unsupported or invalid protocol")

\* C10: parseProxyLink answers a recognised scheme without a decoder with
\* 'Protocol "<p>" is not yet supported', an unrecognised one with
\* "Unsupported or invalid protocol", never one for the other, and hands only
\* vless links to parseVlessLink
C10_DispatcherDiagnostics ==
    Returned("parseProxyLink")
        => LET p == ProtocolOfScheme(arg.shape.scheme)
           IN /\ p \in Unimplemented
                    => (~ret.success /\ ret.error = NotYetSupported(p) /\ callee = "")
              /\ p = "" => (~ret.success /\ ret.error = UnsupportedProtocol /\ callee = "")
              /\ (callee = "parseVlessLink") = (p = "vless")
              /\ (~ret.success /\ ret.error = UnsupportedProtocol) => p = ""
              /\ (~ret.success /\ \E q \in Unimplemented : ret.error = NotYetSupported(q))
                    => p \in Unimplemented

\* C10 witness: a link written VMESS:// got the "not yet supported" diagnostic
C10_Witness ==
    /\ Returned("parseProxyLink")
    /\ arg.shape.scheme = <<"V", "M", "E", "S", "S", ":", "/", "/">>
    /\ ret.error = NotYetSupported("vmess")
    /\ callee = ""

\* the members of a set of positions of a sequence of length n, ascending
Ascending(S, n) == SelectSeq([i \in 1..n |-> i], LAMBDA i : i \in S)

\* the positions of the lines that fail, resp. decode, on their own
FailingLines(ls) == {i \in 1..Len(ls) : ~ParseProxyLink(ls[i], i).success}

ValidLines(ls) == (1..Len(ls)) \ FailingLines(ls)

\* an outbound without its tag
Untagged(o) == [o EXCEPT !.tag = <<>>]

\* C1: on n lines that are all links, those in F failing, parseProxyLinks
\* returns the n-|F| other outbounds in input order (as the batch without the
\* failing lines returns them) and one diagnostic per failing line, with that
\* line's number and message; default tags are proxy-p1..proxy-p(n-|F|)
C1_BatchPartialSuccess ==
    (Returned("parseProxyLinks") /\ \A i \in 1..Len(arg.lines) : arg.lines[i] \in LinkLines)
        => LET ls == arg.lines
               bad == Ascending(FailingLines(ls), Len(ls))
               good == Ascending(ValidLines(ls), Len(ls))
           IN /\ Len(ret.outbounds) = Len(ls) - Cardinality(FailingLines(ls))
              /\ Len(ret.errors) = Cardinality(FailingLines(ls))
              /\ \A k \in 1..Len(bad) :
                    /\ ret.errors[k].lineNumber = bad[k]
                    /\ ret.errors[k].error = ParseProxyLink(ls[bad[k]], bad[k]).error
              /\ \A k \in 1..Len(good) :
                    Untagged(ret.outbounds[k])
                        = Untagged(ParseProxyLink(ls[good[k]], good[k]).outbound)
              /\ ret.outbounds
                    = ParseProxyLinks(Join([k \in 1..Len(good) |-> ls[good[k]]], "\n")).outbounds
              /\ (\A k \in 1..Len(good) : ~Includes(ls[good[k]], "#"))
                    => \A k \in 1..Len(good) :
                          ret.outbounds[k].tag = S_proxy_p \o NumText(k)

\* C1 witness: three lines, the second malformed, the others with default
\* tags: two outbounds proxy-p1, proxy-p2 and one diagnostic for line 2
C1_Witness ==
    /\ Returned("parseProxyLinks")
    /\ arg.lines = <<LineDefault, LineBadPort, LineDefault>>
    /\ Len(ret.outbounds) = 2
    /\ ret.outbounds[2].tag = S_proxy_p \o <<"2">>
    /\ Len(ret.errors) = 1
    /\ ret.errors[1].lineNumber = 2

(***************************************************************************)
(* Assembler: buildConfig (builder.ts) and the preset tables               *)
(***************************************************************************)

T_proxy == <<"p", "r", "o", "x", "y">>

T_auto == <<"a", "u", "t", "o">>

T_direct == <<"d", "i", "r", "e", "c", "t">>

\* dnsPresets[preset].config
DnsPresets ==
    [google |-> [servers |-> <<[tag |-> "google", type |-> "tls", detour |-> T_proxy],
                               [tag |-> "local", type |-> "local"]>>,
                 final |-> "google", strategy |-> "prefer_ipv4"],
     cloudflare |-> [servers |-> <<[tag |-> "cloudflare", type |-> "https", detour |-> T_proxy],
                                   [tag |-> "local", type |-> "local"]>>,
                     final |-> "cloudflare", strategy |-> "prefer_ipv4"],
     adguard |-> [servers |-> <<[tag |-> "adguard", type |-> "tls", detour |-> T_proxy],
                                [tag |-> "local", type |-> "local"]>>,
                  final |-> "adguard", strategy |-> "prefer_ipv4"]]

\* inboundPresets[preset].config
InboundPresets ==
    [tun |-> <<[type |-> "tun", tag |-> "tun-in"]>>,
     mixed |-> <<[type |-> "mixed", tag |-> "mixed-in"]>>,
     full |-> <<[type |-> "tun", tag |-> "tun-in"], [type |-> "mixed", tag |-> "mixed-in"]>>]

\* xs.map((x) => x.tag)
Tags(xs) == [i \in 1..Len(xs) |-> xs[i].tag]

\* const { endpoints = [] } = options
EndpointsOf(options) == IF "endpoints" \in DOMAIN options THEN options.endpoints ELSE <<>>

\* SystemOutbounds without the length test: the urltest is synthesized even without tags
SystemOutboundsAlwaysAuto(allTags) ==
    <<[type |-> "selector", tag |-> T_proxy,
       outbounds |-> IF Len(allTags) > 0 THEN <<T_auto>> \o allTags ELSE <<T_direct>>,
       default |-> IF Len(allTags) > 0 THEN T_auto ELSE T_direct]>>
    \o <<[type |-> "urltest", tag |-> T_auto, outbounds |-> allTags,
          url |-> "https://www.gstatic.com/generate_204", interval |-> "5m",
          tolerance |-> 50]>>
    \o <<[type |-> "direct", tag |-> T_direct]>>

\* system outbounds whose selector offers "auto" although no urltest is made
SystemOutboundsWithoutUrltest(allTags) ==
    <<[type |-> "selector", tag |-> T_proxy,
       outbounds |-> IF Len(allTags) > 0 THEN <<T_auto>> \o allTags ELSE <<T_direct>>,
       default |-> IF Len(allTags) > 0 THEN T_auto ELSE T_direct]>>
    \o <<[type |-> "direct", tag |-> T_direct]>>

\* the selector, the urltest (when a tag exists) and the direct outbound
SystemOutbounds(allTags) ==
    <<[type |-> "selector", tag |-> T_proxy,
       outbounds |-> IF Len(allTags) > 0 THEN <<T_auto>> \o allTags ELSE <<T_direct>>,
       default |-> IF Len(allTags) > 0 THEN T_auto ELSE T_direct]>>
    \o (IF Len(allTags) > 0
        THEN <<[type |-> "urltest", tag |-> T_auto, outbounds |-> allTags,
                url |-> "https://www.gstatic.com/generate_204", interval |-> "5m",
                tolerance |-> 50]>>
        ELSE <<>>)
    \o <<[type |-> "direct", tag |-> T_direct]>>

\* WithEndpoints without the length test: the key is always written
WithEndpointsAlways(config, endpoints) == config @@ [endpoints |-> endpoints]

\* config.endpoints = endpoints, only if (endpoints.length > 0)
WithEndpoints(config, endpoints) ==
    IF Len(endpoints) > 0 THEN config @@ [endpoints |-> endpoints] ELSE config

\* buildConfig(options)
BuildConfig(options) ==
    LET outbounds == options.outbounds
        endpoints == EndpointsOf(options)
        allTags == Tags(outbounds) \o Tags(endpoints)
        config ==
            [log |-> [level |-> "info", timestamp |-> TRUE],
             experimental |->
                 [cache_file |-> [enabled |-> TRUE, path |-> "cache.db"],
                  clash_api |-> [external_controller |-> "127.0.0.1:9090",
                                 external_ui |-> "ui", secret |-> ""]],
             dns |-> DnsPresets[options.dnsPreset],
             inbounds |-> InboundPresets[options.inboundPreset],
             outbounds |-> outbounds \o SystemOutbounds(allTags),
             route |-> [default_domain_resolver |-> "local",
                        auto_detect_interface |-> TRUE,
                        final |-> T_proxy,
                        rules |-> <<[ip_is_private |-> TRUE, outbound |-> T_direct]>>]]
    IN WithEndpoints(config, endpoints)

\* the tags the decoded outbounds and endpoints may carry
TagPool == {<<"a">>, <<"b">>, T_auto, T_proxy}

MaxOutbounds == 2

MaxEndpoints == 1

OutboundLists ==
    UNION {[1..n -> {[type |-> "vless", tag |-> t] : t \in TagPool}] : n \in 0..MaxOutbounds}

EndpointLists ==
    UNION {[1..n -> {[type |-> "awg", tag |-> t] : t \in TagPool}] : n \in 0..MaxEndpoints}

\* BuildOptions, with and without the optional endpoints
BuildArgs ==
    {[outbounds |-> os, endpoints |-> es, dnsPreset |-> d, inboundPreset |-> i] :
        os \in OutboundLists, es \in EndpointLists,
        d \in DOMAIN DnsPresets, i \in DOMAIN InboundPresets}
    \cup {[outbounds |-> os, dnsPreset |-> d, inboundPreset |-> i] :
        os \in OutboundLists, d \in DOMAIN DnsPresets, i \in DOMAIN InboundPresets}

CallBuildConfig ==
    /\ pc = "idle"
    /\ \E a \in BuildArgs :
          /\ arg' = a
          /\ ret' = BuildConfig(a)
    /\ call' = "buildConfig"
    /\ callee' = ""
    /\ pc' = "done"
    /\ UNCHANGED <<memo, store, error>>

NextBuild == CallBuildConfig \/ Return

SpecBuild == Init /\ [][NextBuild]_vars

\* the output's outbounds of a type
OfType(config, type) == SelectSeq(config.outbounds, LAMBDA o : o.type = type)

\* the tags of the decoded outbounds, then those of the endpoints
SuppliedTags(options) == Tags(options.outbounds) \o Tags(EndpointsOf(options))

\* C5: with no tag the selector "proxy" offers only "direct" and defaults to
\* it and there is no urltest; with tags T it offers "auto" then T and defaults
\* to "auto", and a urltest "auto" races T in order; a "direct" outbound always
\* exists and the decoded outbounds come first in the output list
C5_SelectorPolicy ==
    Returned("buildConfig")
        => LET T == SuppliedTags(arg)
               n == Len(arg.outbounds)
               system == SubSeq(ret.outbounds, n + 1, Len(ret.outbounds))
           IN /\ SubSeq(ret.outbounds, 1, n) = arg.outbounds
              /\ Len(OfType(ret, "selector")) = 1
              /\ OfType(ret, "selector")[1].tag = T_proxy
              /\ Len(OfType(ret, "direct")) = 1
              /\ OfType(ret, "direct")[1].tag = T_direct
              /\ T = <<>> =>
                    /\ OfType(ret, "selector")[1].outbounds = <<T_direct>>
                    /\ OfType(ret, "selector")[1].default = T_direct
                    /\ OfType(ret, "urltest") = <<>>
                    /\ Len(system) = 2
              /\ T # <<>> =>
                    /\ OfType(ret, "selector")[1].outbounds = <<T_auto>> \o T
                    /\ OfType(ret, "selector")[1].default = T_auto
                    /\ Len(OfType(ret, "urltest")) = 1
                    /\ OfType(ret, "urltest")[1].tag = T_auto
                    /\ OfType(ret, "urltest")[1].outbounds = T
                    /\ Len(system) = 3

\* C5 witness: two outbounds a, b and no endpoint gave selector [auto, a, b]
\* and a urltest racing [a, b]
C5_Witness ==
    /\ Returned("buildConfig")
    /\ Tags(arg.outbounds) = <<<<"a">>, <<"b">>>>
    /\ EndpointsOf(arg) = <<>>
    /\ ret.outbounds[3].outbounds = <<T_auto, <<"a">>, <<"b">>>>
    /\ ret.outbounds[4].outbounds = <<<<"a">>, <<"b">>>>

\* C6: the output has an endpoints key exactly when the supplied endpoint list
\* is non-empty, and then it is that list; omitted endpoints act as the empty
\* list
C6_EndpointsKey ==
    Returned("buildConfig")
        => /\ ("endpoints" \in DOMAIN ret) = (EndpointsOf(arg) # <<>>)
           /\ "endpoints" \in DOMAIN ret => ret.endpoints = arg.endpoints
           /\ "endpoints" \notin DOMAIN arg
                 => ret = BuildConfig(arg @@ [endpoints |-> <<>>])

\* C6 witness: one endpoint was supplied and is the output's endpoints
C6_Witness ==
    /\ Returned("buildConfig")
    /\ "endpoints" \in DOMAIN arg
    /\ Len(arg.endpoints) = 1
    /\ "endpoints" \in DOMAIN ret
    /\ ret.endpoints = arg.endpoints

(***************************************************************************)
(* Client-config decoder: parseAmneziaConfig (amnezia.ts)                  *)
(*                                                                         *)
(* A JSON value carries its type: null, undefined (a missing property),   *)
(* string (a text), number, boolean, array, object.                        *)
(***************************************************************************)

JNull == [t |-> "null"]

JUndef == [t |-> "undefined"]

JS(s) == [t |-> "string", s |-> s]

JN(n) == [t |-> "number", n |-> n]

JB(b) == [t |-> "boolean", b |-> b]

JA(a) == [t |-> "array", a |-> a]

JO(f) == [t |-> "object", f |-> f]

\* a value whose property access throws TypeError
Nullish(v) == v.t \in {"null", "undefined"}

\* the value as a condition
Truthy(v) ==
    CASE v.t \in {"null", "undefined"} -> FALSE
      [] v.t = "string" -> v.s # <<>>
      [] v.t = "number" -> v.n # 0
      [] v.t = "boolean" -> v.b
      [] OTHER -> TRUE

\* v.k of a value that is not null or undefined
Prop(v, k) == IF v.t = "object" /\ k \in DOMAIN v.f THEN v.f[k] ELSE JUndef

\* v?.k
OptProp(v, k) == IF Nullish(v) THEN JUndef ELSE Prop(v, k)

\* v?.[0]
OptFirst(v) == IF v.t = "array" /\ Len(v.a) > 0 THEN v.a[1] ELSE JUndef

\* v.length > 0: an array or a text has a length, any other value has none
HasLength(v) ==
    CASE v.t = "array" -> Len(v.a) > 0
      [] v.t = "string" -> Len(v.s) > 0
      [] OTHER -> FALSE

\* the value as it is stored in a descriptor: a text, a number, a flag, a list
\* of stored values, Null for null and undefined
RECURSIVE Stored(_)
Stored(v) ==
    CASE v.t = "string" -> v.s
      [] v.t = "number" -> v.n
      [] v.t = "boolean" -> v.b
      [] v.t = "array" -> [i \in 1..Len(v.a) |-> Stored(v.a[i])]
      [] v.t = "object" -> [k \in DOMAIN v.f |-> Stored(v.f[k])]
      [] OTHER -> Null

\* JSON.parse: the value of a well-formed text, SyntaxError otherwise
JSONParse(doc) ==
    IF doc.wellFormed THEN [threw |-> FALSE, value |-> doc.value]
    ELSE [threw |-> TRUE, value |-> JUndef]

X_vless == <<"v", "l", "e", "s", "s">>

\* buildTlsConfig(stream) of amnezia.ts
BuildTlsConfig(stream) ==
    LET security == Prop(stream, "security")
        reality == Prop(stream, "realitySettings")
        tls == Prop(stream, "tlsSettings")
        name(s) == IF Truthy(Prop(s, "serverName"))
                   THEN [server_name |-> Stored(Prop(s, "serverName"))] ELSE NoFields
        utls(s) == IF Truthy(Prop(s, "fingerprint"))
                   THEN [utls |-> [enabled |-> TRUE,
                                   fingerprint |-> Stored(Prop(s, "fingerprint"))]]
                   ELSE NoFields
    IN IF security = JS(V_reality)
       THEN IF Truthy(reality)
            THEN [enabled |-> TRUE] @@ name(reality) @@ utls(reality)
                 @@ (IF Truthy(Prop(reality, "publicKey"))
                     THEN [reality |->
                              [enabled |-> TRUE,
                               public_key |-> Stored(Prop(reality, "publicKey")),
                               short_id |-> IF Truthy(Prop(reality, "shortId"))
                                            THEN Stored(Prop(reality, "shortId"))
                                            ELSE <<>>]]
                     ELSE NoFields)
            ELSE [enabled |-> TRUE]
       ELSE IF security = JS(V_tls) /\ Truthy(tls)
       THEN [enabled |-> TRUE] @@ name(tls) @@ utls(tls)
            @@ (IF Truthy(Prop(tls, "alpn")) /\ HasLength(Prop(tls, "alpn"))
                THEN [alpn |-> Stored(Prop(tls, "alpn"))] ELSE NoFields)
            @@ (IF Truthy(Prop(tls, "allowInsecure")) THEN [insecure |-> TRUE] ELSE NoFields)
       ELSE [enabled |-> TRUE]

\* buildTransport(network, stream) of amnezia.ts: the Transport, NoFields for
\* undefined
XRayBuildTransport(network, stream) ==
    LET ws == Prop(stream, "wsSettings")
        grpc == Prop(stream, "grpcSettings")
        http == Prop(stream, "httpSettings")
        field(s, k, as) == IF Truthy(OptProp(s, k))
                           THEN [x \in {as} |-> Stored(OptProp(s, k))] ELSE NoFields
    IN CASE network = JS(V_ws) ->
              [type |-> "ws"] @@ field(ws, "path", "path") @@ field(ws, "headers", "headers")
         [] network = JS(V_grpc) ->
              [type |-> "grpc"] @@ field(grpc, "serviceName", "service_name")
         [] network \in {JS(V_http), JS(<<"h", "2">>)} ->
              [type |-> "http"] @@ field(http, "path", "path")
                  @@ (IF Truthy(OptProp(http, "host")) /\ HasLength(OptProp(http, "host"))
                      THEN [host |-> Stored(OptProp(http, "host"))] ELSE NoFields)
         [] network = JS(V_quic) -> [type |-> "quic"]
         [] OTHER -> NoFields

\* convertXRayToSingbox(xray, index): the outbound, or the message of the
\* Error it throws
ConvertXRayToSingbox(xray, index) ==
    LET vnext == OptFirst(OptProp(OptProp(xray, "settings"), "vnext"))
        user == OptFirst(OptProp(vnext, "users"))
        stream == Prop(xray, "streamSettings")
        tag == IF Truthy(Prop(xray, "tag")) THEN Stored(Prop(xray, "tag"))
               ELSE S_proxy_p \o NumText(index)
        base == [type |-> "vless", tag |-> tag, server |-> Stored(Prop(vnext, "address")),
                 server_port |-> Stored(Prop(vnext, "port")), uuid |-> Stored(Prop(user, "id"))]
        o1 == IF Truthy(Prop(user, "flow"))
              THEN base @@ [flow |-> Stored(Prop(user, "flow"))] ELSE base
        security == Prop(stream, "security")
        o2 == IF security \in {JS(V_tls), JS(V_reality)}
              THEN o1 @@ [tls |-> BuildTlsConfig(stream)] ELSE o1
        network == IF Truthy(Prop(stream, "network")) THEN Prop(stream, "network")
                   ELSE JS(V_tcp)
        transport == XRayBuildTransport(network, stream)
        o3 == IF network # JS(V_tcp) /\ transport # NoFields
              THEN o2 @@ [transport |-> transport] ELSE o2
    IN IF ~Truthy(vnext) THEN [threw |-> TRUE, message |-> "No vnext configuration found"]
       ELSE IF ~Truthy(user) THEN [threw |-> TRUE, message |-> "No user configuration found"]
       ELSE IF Truthy(stream) THEN [threw |-> FALSE, outbound |-> o3]
       ELSE [threw |-> FALSE, outbound |-> o1]

\* a diagnostic of parseAmneziaConfig: the entry it names (0 for the document),
\* its fixed text and the text interpolated into it
EntryError(i, msg, a) == [entry |-> i, msg |-> msg, arg |-> a]

\* the exception a call let escape to its caller
Thrown(name) == [threw |-> name]

\* AmneziaStep that skips an unsupported protocol without a diagnostic
AmneziaStepSilentSkip(st, xrayOutbound, i) ==
    LET conv == ConvertXRayToSingbox(xrayOutbound, st.proxyCounter)
    IN IF st.threw # "" THEN st
       ELSE IF Nullish(xrayOutbound) THEN [st EXCEPT !.threw = "TypeError"]
       ELSE IF Prop(xrayOutbound, "protocol") # JS(X_vless) THEN st
       ELSE IF conv.threw
       THEN [st EXCEPT !.errors = Append(@, EntryError(i, conv.message, JUndef))]
       ELSE [st EXCEPT !.outbounds = Append(@, conv.outbound), !.proxyCounter = @ + 1]

\* one turn of the loop of parseAmneziaConfig on outbounds[i]; st holds
\* outbounds, errors, proxyCounter and the exception that ended the loop
AmneziaStep(st, xrayOutbound, i) ==
    LET conv == ConvertXRayToSingbox(xrayOutbound, st.proxyCounter)
    IN IF st.threw # "" THEN st
       ELSE IF Nullish(xrayOutbound) THEN [st EXCEPT !.threw = "TypeError"]
       ELSE IF Prop(xrayOutbound, "protocol") # JS(X_vless)
       THEN [st EXCEPT !.errors = Append(@, EntryError(i, "protocol not supported, skipping",
                                                       Prop(xrayOutbound, "protocol")))]
       ELSE IF conv.threw
       THEN [st EXCEPT !.errors = Append(@, EntryError(i, conv.message, JUndef))]
       ELSE [st EXCEPT !.outbounds = Append(@, conv.outbound), !.proxyCounter = @ + 1]

RECURSIVE AmneziaLoop(_, _, _)
AmneziaLoop(st, entries, i) ==
    IF i > Len(entries) THEN st
    ELSE AmneziaLoop(AmneziaStep(st, entries[i], i), entries, i + 1)

\* parseAmneziaConfig(jsonText)
ParseAmneziaConfig(doc) ==
    LET parsed == JSONParse(doc)
        config == parsed.value
        st == AmneziaLoop([outbounds |-> <<>>, errors |-> <<>>, proxyCounter |-> 1,
                           threw |-> ""], Prop(config, "outbounds").a, 1)
    IN IF parsed.threw
       THEN [success |-> FALSE, outbounds |-> <<>>,
             errors |-> <<EntryError(0, "Invalid JSON", JUndef)>>]
       ELSE IF Nullish(config) THEN Thrown("TypeError")
       ELSE IF ~Truthy(Prop(config, "outbounds")) \/ Prop(config, "outbounds").t # "array"
       THEN [success |-> FALSE, outbounds |-> <<>>,
             errors |-> <<EntryError(0, "No outbounds array found in config", JUndef)>>]
       ELSE IF st.threw # "" THEN Thrown(st.threw)
       ELSE [success |-> Len(st.outbounds) > 0, outbounds |-> st.outbounds,
             errors |-> st.errors]

(***************************************************************************)
(* The documents parseAmneziaConfig is called on                           *)
(***************************************************************************)

XS_a == <<"a", ".", "i", "o">>

XS_pk == <<"P", "K">>

XS_id == <<"u", "1">>

VNext(users) == JA(<<JO([address |-> JS(XS_a), port |-> JN(443), users |-> JA(users)])>>)

XUser == JO([id |-> JS(XS_id)])

\* a vless entry with one server and one user, and the given further fields
VlessEntry(more) == JO([protocol |-> JS(X_vless), settings |-> JO([vnext |-> VNext(<<XUser>>)])]
                       @@ more)

RealityEntry(settings) ==
    VlessEntry([streamSettings |-> JO([security |-> JS(V_reality)] @@ settings)])

E_plain == VlessEntry(NoFields)

E_tagged == VlessEntry([tag |-> JS(<<"m", "y">>)])

E_flow == JO([protocol |-> JS(X_vless),
              settings |-> JO([vnext |-> VNext(<<JO([id |-> JS(XS_id),
                                                     flow |-> JS(<<"x">>)])>>)])])

E_vmess == JO([protocol |-> JS(<<"v", "m", "e", "s", "s">>)])

E_text == JS(<<"x">>)

E_null == JNull

E_noVnext == JO([protocol |-> JS(X_vless), settings |-> JO(NoFields)])

E_noUser == JO([protocol |-> JS(X_vless), settings |-> JO([vnext |-> VNext(<<>>)])])

E_reality == RealityEntry([realitySettings |->
                 JO([publicKey |-> JS(XS_pk), shortId |-> JS(<<"a", "b">>),
                     serverName |-> JS(XS_a), fingerprint |-> JS(<<"c", "h", "r", "o", "m", "e">>)])])

E_realityNoKey == RealityEntry([realitySettings |-> JO([serverName |-> JS(XS_a)])])

E_realityEmptyKey == RealityEntry([realitySettings |-> JO([publicKey |-> JS(<<>>)])])

E_realityNoSettings == RealityEntry(NoFields)

E_tls == VlessEntry([streamSettings |->
             JO([security |-> JS(V_tls),
                 tlsSettings |-> JO([serverName |-> JS(XS_a),
                                     fingerprint |-> JS(<<"o", "p", "e", "r", "a">>),
                                     alpn |-> JA(<<JS(<<"h", "2">>)>>),
                                     allowInsecure |-> JB(TRUE)])])])

E_ws == VlessEntry([streamSettings |->
            JO([network |-> JS(V_ws), wsSettings |-> JO([path |-> JS(<<"/", "w">>)])])])

E_h2 == VlessEntry([streamSettings |->
            JO([network |-> JS(<<"h", "2">>),
                httpSettings |-> JO([host |-> JA(<<JS(XS_a)>>)])])])

E_grpc == VlessEntry([streamSettings |->
              JO([network |-> JS(V_grpc), security |-> JS(V_none),
                  grpcSettings |-> JO([serviceName |-> JS(<<"g">>)])])])

XEntries == {E_plain, E_tagged, E_flow, E_vmess, E_text, E_null, E_noVnext, E_noUser,
             E_reality, E_realityNoKey, E_realityEmptyKey, E_realityNoSettings,
             E_tls, E_ws, E_h2, E_grpc}

MaxEntries == 2

EntryLists == UNION {[1..n -> XEntries] : n \in 0..MaxEntries}

\* a JSON text: malformed, or the value it parses to
Malformed == [wellFormed |-> FALSE, value |-> JUndef]

WellFormed(v) == [wellFormed |-> TRUE, value |-> v]

AmneziaArgs ==
    {Malformed, WellFormed(JNull), WellFormed(JN(5)), WellFormed(JB(FALSE)),
     WellFormed(JS(<<"x">>)), WellFormed(JA(<<>>)), WellFormed(JO(NoFields)),
     WellFormed(JO([outbounds |-> JNull])), WellFormed(JO([outbounds |-> JS(<<"x">>)])),
     WellFormed(JO([outbounds |-> JO(NoFields)]))}
    \cup {WellFormed(JO([outbounds |-> JA(es)])) : es \in EntryLists}

CallParseAmneziaConfig ==
    /\ pc = "idle"
    /\ \E doc \in AmneziaArgs :
          /\ arg' = doc
          /\ ret' = ParseAmneziaConfig(doc)
    /\ call' = "parseAmneziaConfig"
    /\ callee' = ""
    /\ pc' = "done"
    /\ UNCHANGED <<memo, store, error>>

NextAmnezia == CallParseAmneziaConfig \/ Return

SpecAmnezia == Init /\ [][NextAmnezia]_vars

(***************************************************************************)
(* Claims about the client-config decoder                                  *)
(***************************************************************************)

\* the entries of the document the call was made on
EntriesOf(doc) == Prop(doc.value, "outbounds").a

HasEntries(doc) == doc.wellFormed /\ Prop(doc.value, "outbounds").t = "array"

\* a vless entry whose stream security is "reality" and whose publicKey is
\* missing or empty
RealityWithoutKey(e) ==
    /\ Prop(e, "protocol") = JS(X_vless)
    /\ OptProp(Prop(e, "streamSettings"), "security") = JS(V_reality)
    /\ ~Truthy(OptProp(OptProp(Prop(e, "streamSettings"), "realitySettings"), "publicKey"))

\* C3: parseAmneziaConfig rejects every reality entry without a public key
\* with a diagnostic naming that entry and returns no outbound for it: the
\* outbounds are at most as many as the other entries, and each one with a TLS
\* block of a reality entry carries tls.reality with a non-empty public_key.
C3_RealityEntryRejected ==
    (Returned("parseAmneziaConfig") /\ HasEntries(arg) /\ "threw" \notin DOMAIN ret) =>
        LET es == EntriesOf(arg)
            keyless == {i \in 1..Len(es) : RealityWithoutKey(es[i])}
        IN /\ \A i \in keyless : \E k \in 1..Len(ret.errors) : ret.errors[k].entry = i
           /\ Len(ret.outbounds) <= Len(es) - Cardinality(keyless)

\* C4: a decoder call returns a structured result and lets no exception escape
\* to its caller.
C4_NeverThrows ==
    (pc = "done" /\ call \in {"parseVlessLink", "parseProxyLink", "parseProxyLinks",
                              "parseAmneziaConfig", "parseAwgConfig"}) =>
        "threw" \notin DOMAIN ret

(***************************************************************************)
(* VPN-config decoder: parseAwgConfig (awg.ts)                             *)
(*                                                                         *)
(* A ParsedSection is a function from its keys (texts) to their values.    *)
(***************************************************************************)

A_interface == <<"[", "i", "n", "t", "e", "r", "f", "a", "c", "e", "]">>

A_peer == <<"[", "p", "e", "e", "r", "]">>

A_privatekey == <<"p", "r", "i", "v", "a", "t", "e", "k", "e", "y">>

A_address == <<"a", "d", "d", "r", "e", "s", "s">>

A_mtu == <<"m", "t", "u">>

A_listenport == <<"l", "i", "s", "t", "e", "n", "p", "o", "r", "t">>

A_publickey == <<"p", "u", "b", "l", "i", "c", "k", "e", "y">>

A_endpoint == <<"e", "n", "d", "p", "o", "i", "n", "t">>

A_presharedkey == <<"p", "r", "e", "s", "h", "a", "r", "e", "d", "k", "e", "y">>

A_allowedips == <<"a", "l", "l", "o", "w", "e", "d", "i", "p", "s">>

A_persistentkeepalive == <<"p", "e", "r", "s", "i", "s", "t", "e", "n", "t",
                           "k", "e", "e", "p", "a", "l", "i", "v", "e">>

A_awg_endpoint == <<"a", "w", "g", "-", "e", "n", "d", "p", "o", "i", "n", "t">>

\* {} as ParsedSection
EmptySection == [k \in {} |-> <<>>]

\* section[key] = value
Put(section, key, value) == [k \in DOMAIN section \cup {key} |->
                                IF k = key THEN value ELSE section[k]]

\* section.key: the value, Null for undefined
Field(section, key) == IF key \in DOMAIN section THEN section[key] ELSE Null

\* value.match(/<([^>]+)>/): the 1-based position of the "<" that starts the
\* first match, 0 for no match
AngleMatch(value) ==
    LET starts == {i \in 1..(Len(value) - 2) :
                      /\ value[i] = "<"
                      /\ value[i + 1] # ">"
                      /\ \E j \in (i + 2)..Len(value) : value[j] = ">"}
    IN IF starts = {} THEN 0 ELSE CHOOSE i \in starts : \A j \in starts : i <= j

\* match[1] of the match that starts at position i
AngleGroup(value, i) == SubSeq(value, i + 1, i + IndexOf(From(value, i + 1), ">") - 1)

\* parseLine(line): null, or the key and the value
ParseLine(line) ==
    LET trimmed == Trim(line)
        eqIndex == IndexOf(trimmed, "=")
        key == Trim(SubSeq(trimmed, 1, eqIndex - 1))
        value == Trim(From(trimmed, eqIndex + 1))
        m == AngleMatch(value)
    IN IF trimmed = <<>> \/ StartsWith(trimmed, <<"#">>) \/ StartsWith(trimmed, <<"/", "/">>)
       THEN [null |-> TRUE, key |-> <<>>, value |-> <<>>]
       ELSE IF eqIndex = 0 THEN [null |-> TRUE, key |-> <<>>, value |-> <<>>]
       ELSE IF StartsWith(value, <<"<">>) /\ Includes(value, ">") /\ m # 0
       THEN [null |-> FALSE, key |-> key, value |-> Trim(AngleGroup(value, m))]
       ELSE [null |-> FALSE, key |-> key, value |-> value]

\* content.replace(/^\ufeff/, ""): the byte order mark is the token "<bom>"
StripBom(content) ==
    IF content # <<>> /\ content[1] = "<bom>" THEN Tail(content) ELSE content

\* .replace(/\r\n/g, "\n").replace(/\r/g, "\n"): a carriage return before a
\* line feed is dropped, any other becomes a line feed
NormalizeLineEndings(s) ==
    LET marked == [i \in 1..Len(s) |->
                      IF s[i] # "\r" THEN <<s[i]>>
                      ELSE IF i < Len(s) /\ s[i + 1] = "\n" THEN <<>>
                      ELSE <<"\n">>]
        kept == SelectSeq(marked, LAMBDA m : m # <<>>)
    IN [i \in 1..Len(kept) |-> kept[i][1]]

\* the pending peer is saved if the machine is in a peer section and the
\* peer has a key
FlushPeer(st) ==
    IF st.currentSection = "peer" /\ DOMAIN st.currentPeer # {}
    THEN Append(st.peers, st.currentPeer) ELSE st.peers

\* one turn of the loop of parseSections
SectionsStep(st, line) ==
    LET trimmed == Trim(line)
        parsed == ParseLine(trimmed)
        keyLower == ToLower(parsed.key)
    IN IF ToLower(trimmed) = A_interface THEN [st EXCEPT !.currentSection = "interface"]
       ELSE IF ToLower(trimmed) = A_peer
       THEN [st EXCEPT !.peers = FlushPeer(st), !.currentSection = "peer",
                       !.currentPeer = EmptySection]
       ELSE IF parsed.null THEN st
       ELSE IF st.currentSection = "interface"
       THEN [st EXCEPT !.interface = Put(@, keyLower, parsed.value)]
       ELSE IF st.currentSection = "peer"
       THEN [st EXCEPT !.currentPeer = Put(@, keyLower, parsed.value)]
       ELSE st

RECURSIVE SectionsLoop(_, _)
SectionsLoop(st, lines) ==
    IF lines = <<>> THEN st
    ELSE SectionsLoop(SectionsStep(st, Head(lines)), Tail(lines))

\* parseSections(content)
ParseSections(content) ==
    LET lines == Split(NormalizeLineEndings(StripBom(content)), "\n")
        st == SectionsLoop([interface |-> EmptySection, peers |-> <<>>,
                            currentSection |-> "none", currentPeer |-> EmptySection], lines)
    IN [interface |-> st.interface, peers |-> FlushPeer(st)]

\* endpoint.match(/^\[([^\]]+)\]:(\d+)$/)
Ipv6Match(endpoint) ==
    LET k == IndexOf(endpoint, "]")
    IN /\ endpoint # <<>> /\ endpoint[1] = "["
       /\ k >= 3 /\ Len(endpoint) >= k + 2 /\ endpoint[k + 1] = ":"
       /\ \A i \in (k + 2)..Len(endpoint) : endpoint[i] \in DigitSet

\* parseEndpoint(endpoint): null, or the address and the port
ParseEndpoint(endpoint) ==
    LET k == IndexOf(endpoint, "]")
        lastColon == LastIndexOf(endpoint, ":")
        port == ParseInt(From(endpoint, lastColon + 1))
    IN IF Ipv6Match(endpoint)
       THEN [null |-> FALSE, address |-> SubSeq(endpoint, 2, k - 1),
             port |-> ParseInt(From(endpoint, k + 2)).val]
       ELSE IF lastColon = 0 \/ port.nan THEN [null |-> TRUE, address |-> <<>>, port |-> 0]
       ELSE [null |-> FALSE, address |-> SubSeq(endpoint, 1, lastColon - 1), port |-> port.val]

\* an address always given the IPv4 mask
NormalizeAddressAlways32(addr) ==
    IF Includes(Trim(addr), "/") THEN Trim(addr) ELSE Trim(addr) \o <<"/", "3", "2">>

\* normalizeAddress(addr)
NormalizeAddress(addr) ==
    LET trimmed == Trim(addr)
    IN IF Includes(trimmed, "/") THEN trimmed
       ELSE IF Includes(trimmed, ":") THEN trimmed \o <<"/", "1", "2", "8">>
       ELSE trimmed \o <<"/", "3", "2">>

\* parseCommaSeparated(value)
ParseCommaSeparated(value) ==
    LET parts == Split(value, ",")
        trimmed == [i \in 1..Len(parts) |-> Trim(parts[i])]
    IN SelectSeq(trimmed, LAMBDA s : Len(s) > 0)

\* a number field that stores 0 for a value that does not parse
NumberFieldStoresUnparsed(section, key, name) ==
    IF Falsy(Field(section, key)) THEN NoFields
    ELSE IF ParseInt(Field(section, key)).nan THEN [x \in {name} |-> 0]
    ELSE [x \in {name} |-> ParseInt(Field(section, key)).val]

\* "if (section.key) { n = parseInt(section.key, 10); if (!isNaN(n)) out.name = n }"
NumberField(section, key, name) ==
    IF ~Falsy(Field(section, key)) /\ ~ParseInt(Field(section, key)).nan
    THEN [x \in {name} |-> ParseInt(Field(section, key)).val] ELSE NoFields

\* "if (section.key) out.name = section.key"
TextField(section, key, name) ==
    IF ~Falsy(Field(section, key)) THEN [x \in {name} |-> Field(section, key)] ELSE NoFields

\* a diagnostic of parseAwgConfig: the peer it names (0 for the document) and
\* its fixed text
PeerError(i, msg) == [peer |-> i, msg |-> msg]

\* the endpoint parseAwgConfig builds from the interface section, before peers
AwgInterface(iface) ==
    [type |-> "awg", tag |-> A_awg_endpoint, useIntegratedTun |-> FALSE,
     private_key |-> Field(iface, A_privatekey),
     address |-> IF ~Falsy(Field(iface, A_address))
                 THEN LET items == ParseCommaSeparated(Field(iface, A_address))
                      IN [i \in 1..Len(items) |-> NormalizeAddress(items[i])]
                 ELSE <<>>]
    @@ NumberField(iface, A_mtu, "mtu")
    @@ NumberField(iface, A_listenport, "listen_port")
    @@ NumberField(iface, <<"j", "c">>, "jc")
    @@ NumberField(iface, <<"j", "m", "i", "n">>, "jmin")
    @@ NumberField(iface, <<"j", "m", "a", "x">>, "jmax")
    @@ NumberField(iface, <<"s", "1">>, "s1")
    @@ NumberField(iface, <<"s", "2">>, "s2")
    @@ NumberField(iface, <<"s", "3">>, "s3")
    @@ NumberField(iface, <<"s", "4">>, "s4")
    @@ TextField(iface, <<"h", "1">>, "h1")
    @@ TextField(iface, <<"h", "2">>, "h2")
    @@ TextField(iface, <<"h", "3">>, "h3")
    @@ TextField(iface, <<"h", "4">>, "h4")
    @@ TextField(iface, <<"i", "1">>, "i1")
    @@ TextField(iface, <<"i", "2">>, "i2")
    @@ TextField(iface, <<"i", "3">>, "i3")
    @@ TextField(iface, <<"i", "4">>, "i4")
    @@ TextField(iface, <<"i", "5">>, "i5")

\* the AwgPeer built from a peer section whose endpoint parsed
AwgPeerOf(peerData, parsedEndpoint) ==
    [address |-> parsedEndpoint.address, port |-> parsedEndpoint.port,
     public_key |-> Field(peerData, A_publickey),
     allowed_ips |-> IF ~Falsy(Field(peerData, A_allowedips))
                     THEN ParseCommaSeparated(Field(peerData, A_allowedips)) ELSE <<>>]
    @@ TextField(peerData, A_presharedkey, "preshared_key")
    @@ NumberField(peerData, A_persistentkeepalive, "persistent_keepalive_interval")

\* a peer loop that stops collecting at the first section it rejects
AwgPeerStepAbort(st, peerData, i) ==
    LET parsedEndpoint == ParseEndpoint(Field(peerData, A_endpoint))
    IN IF Len(st.errors) > 0 THEN st
       ELSE IF Falsy(Field(peerData, A_publickey))
       THEN [st EXCEPT !.errors = Append(@, PeerError(i, "PublicKey is required"))]
       ELSE IF Falsy(Field(peerData, A_endpoint))
       THEN [st EXCEPT !.errors = Append(@, PeerError(i, "Endpoint is required"))]
       ELSE IF parsedEndpoint.null
       THEN [st EXCEPT !.errors = Append(@, PeerError(i, "Invalid Endpoint format"))]
       ELSE [st EXCEPT !.peers = Append(@, AwgPeerOf(peerData, parsedEndpoint))]

\* one turn of the peer loop of parseAwgConfig on sections.peers[i]
AwgPeerStep(st, peerData, i) ==
    LET parsedEndpoint == ParseEndpoint(Field(peerData, A_endpoint))
    IN IF Falsy(Field(peerData, A_publickey))
       THEN [st EXCEPT !.errors = Append(@, PeerError(i, "PublicKey is required"))]
       ELSE IF Falsy(Field(peerData, A_endpoint))
       THEN [st EXCEPT !.errors = Append(@, PeerError(i, "Endpoint is required"))]
       ELSE IF parsedEndpoint.null
       THEN [st EXCEPT !.errors = Append(@, PeerError(i, "Invalid Endpoint format"))]
       ELSE [st EXCEPT !.peers = Append(@, AwgPeerOf(peerData, parsedEndpoint))]

RECURSIVE AwgPeerLoop(_, _, _)
AwgPeerLoop(st, peers, i) ==
    IF i > Len(peers) THEN st
    ELSE AwgPeerLoop(AwgPeerStep(st, peers[i], i), peers, i + 1)



\* the peer check placed before the private key check
AwgFatalPeersFirst(sections) ==
    IF DOMAIN sections.interface = {} THEN "No [Interface] section found"
    ELSE IF Len(sections.peers) = 0 THEN "No [Peer] section found"
    ELSE IF Falsy(Field(sections.interface, A_privatekey))
    THEN "PrivateKey is required in [Interface] section"
    ELSE ""

\* the document-level diagnostic of parseAwgConfig for the parsed sections,
\* "" when there is none
AwgFatal(sections) ==
    IF DOMAIN sections.interface = {} THEN "No [Interface] section found"
    ELSE IF Falsy(Field(sections.interface, A_privatekey))
    THEN "PrivateKey is required in [Interface] section"
    ELSE IF Len(sections.peers) = 0 THEN "No [Peer] section found"
    ELSE ""

\* parseAwgConfig(confContent)
ParseAwgConfig(confContent) ==
    LET sections == ParseSections(confContent)
        fatal == AwgFatal(sections)
        st == AwgPeerLoop([peers |-> <<>>, errors |-> <<>>], sections.peers, 1)
    IN IF fatal # "" THEN [success |-> FALSE, errors |-> <<PeerError(0, fatal)>>]
       ELSE IF Len(st.peers) = 0
       THEN [success |-> FALSE,
             errors |-> IF Len(st.errors) > 0 THEN st.errors
                        ELSE <<PeerError(0, "No valid peers found")>>]
       ELSE [success |-> TRUE,
             endpoint |-> AwgInterface(sections.interface) @@ [peers |-> st.peers],
             errors |-> st.errors]

(***************************************************************************)
(* The documents parseAwgConfig is called on: up to MaxAwgParts parts,     *)
(* each one or more lines, joined by line feeds                            *)
(***************************************************************************)

D_interface == <<"[", "I", "n", "t", "e", "r", "f", "a", "c", "e", "]">>

D_privateKey == <<"P", "r", "i", "v", "a", "t", "e", "K", "e", "y", " ", "=", " ", "X">>

D_privateKeyEmpty == <<"P", "r", "i", "v", "a", "t", "e", "K", "e", "y", " ", "=">>

\* PrivateKey = X, then Address = 10.0.0.2, fd00::2 ,10.0.0.3/24,
D_keyAddress == D_privateKey \o <<"\n">> \o
                <<"A", "d", "d", "r", "e", "s", "s", " ", "=", " ",
                  "1", "0", ".", "0", ".", "0", ".", "2", ",", " ",
                  "f", "d", "0", "0", ":", ":", "2", " ", ",",
                  "1", "0", ".", "0", ".", "0", ".", "3", "/", "2", "4", ",">>

\* a peer section with a key and an endpoint, with CR LF line endings
D_peer == <<"[", "P", "e", "e", "r", "]", "\r", "\n",
            "P", "u", "b", "l", "i", "c", "K", "e", "y", "=", "K", "\r", "\n",
            "E", "n", "d", "p", "o", "i", "n", "t", " ", "=", " ", "h", ":", "1">>

\* a peer section without a public key
D_peerNoKey == <<"[", "p", "e", "e", "r", "]", "\n",
                 "E", "n", "d", "p", "o", "i", "n", "t", "=", "[", ":", ":", "1", "]", ":", "2">>

D_peerHeader == <<"[", "P", "e", "e", "r", "]">>

\* a comment and a number that does not parse
D_comment == <<"#", " ", "c", "\n", "M", "T", "U", " ", "=", " ", "x">>

\* an interface section with its private key
D_interfaceKey == <<"[", "I", "n", "t", "e", "r", "f", "a", "c", "e", "]",
                    "\n", "P", "r", "i", "v", "a", "t", "e", "K", "e", "y", " ",
                    "=", " ", "X">>

\* a peer section with a bracketed endpoint and allowed addresses
D_peerV6 == <<"[", "P", "e", "e", "r", "]", "\n", "P", "u", "b", "l", "i",
              "c", "K", "e", "y", " ", "=", " ", "L", "\n", "E", "n", "d", "p",
              "o", "i", "n", "t", " ", "=", " ", "[", ":", ":", "1", "]", ":",
              "2", "\n", "A", "l", "l", "o", "w", "e", "d", "I", "P", "s", " ",
              "=", " ", "0", ".", "0", ".", "0", ".", "0", "/", "0", ",", " ",
              ":", ":", "/", "0">>

\* a peer section whose endpoint has no port
D_peerBadEndpoint == <<"[", "P", "e", "e", "r", "]", "\n", "P", "u", "b", "l",
                       "i", "c", "K", "e", "y", " ", "=", " ", "M", "\n", "E",
                       "n", "d", "p", "o", "i", "n", "t", " ", "=", " ", "h">>

\* a peer section with a public key and no endpoint
D_peerKeyOnly == <<"[", "P", "e", "e", "r", "]", "\n", "P", "u", "b", "l",
                   "i", "c", "K", "e", "y", " ", "=", " ", "N">>

AwgParts == {D_interface, D_privateKey, D_privateKeyEmpty, D_keyAddress, D_peer,
             D_peerNoKey, D_peerHeader, D_comment, D_interfaceKey, D_peerV6,
             D_peerBadEndpoint, D_peerKeyOnly}

MaxAwgParts == 3

AwgArgs == {Join(ps, "\n") : ps \in UNION {[1..n -> AwgParts] : n \in 0..MaxAwgParts}}

\* the addresses normalizeAddress is called on
AddressChars == {"1", ":", "/", " ", "."}

MaxAddressLen == 3

AddressArgs == UNION {[1..n -> AddressChars] : n \in 0..MaxAddressLen}

CallParseAwgConfig ==
    /\ pc = "idle"
    /\ \E confContent \in AwgArgs :
          /\ arg' = confContent
          /\ ret' = ParseAwgConfig(confContent)
    /\ call' = "parseAwgConfig"
    /\ callee' = ""
    /\ pc' = "done"
    /\ UNCHANGED <<memo, store, error>>

CallNormalizeAddress ==
    /\ pc = "idle"
    /\ \E addr \in AddressArgs :
          /\ arg' = addr
          /\ ret' = NormalizeAddress(addr)
    /\ call' = "normalizeAddress"
    /\ callee' = ""
    /\ pc' = "done"
    /\ UNCHANGED <<memo, store, error>>

NextAwg == CallParseAwgConfig \/ CallNormalizeAddress \/ Return

SpecAwg == Init /\ [][NextAwg]_vars

(***************************************************************************)
(* Claims about the VPN-config decoder                                     *)
(***************************************************************************)

\* the result of a document-level failure: no endpoint, one diagnostic
AwgFailure(msg) == [success |-> FALSE, errors |-> <<PeerError(0, msg)>>]

\* the items of the interface Address line of a document, as parseAwgConfig
\* splits them
AddressItems(confContent) ==
    LET iface == ParseSections(confContent).interface
    IN IF Falsy(Field(iface, A_address)) THEN <<>>
       ELSE ParseCommaSeparated(Field(iface, A_address))

\* the prefix length the claim gives an address
WithPrefix(a) ==
    IF Includes(a, "/") THEN a
    ELSE IF Includes(a, ":") THEN a \o <<"/", "1", "2", "8">>
    ELSE a \o <<"/", "3", "2">>

\* C8: normalizeAddress returns an address that has "/" unchanged, appends
\* "/128" to one with a colon and "/32" to any other (the addresses are the
\* trimmed comma-split items); its result always carries "/" and is a fixed
\* point of normalizeAddress; the addresses of a returned endpoint are the
\* items of the Address line so normalized, each with an explicit prefix.
C8_NormalizeAddress ==
    /\ Returned("normalizeAddress") =>
          /\ Trim(arg) = arg => ret = WithPrefix(arg)
          /\ Includes(ret, "/")
          /\ NormalizeAddress(ret) = ret
    /\ (Returned("parseAwgConfig") /\ ret.success) =>
          LET items == AddressItems(arg)
          IN /\ Len(ret.endpoint.address) = Len(items)
             /\ \A i \in 1..Len(items) :
                   /\ ret.endpoint.address[i] = WithPrefix(items[i])
                   /\ Includes(ret.endpoint.address[i], "/")

\* an endpoint was returned whose addresses got "/32", got "/128" and were
\* kept as written
C8_Witness ==
    /\ Returned("parseAwgConfig")
    /\ ret.success
    /\ ret.endpoint.address =
          << <<"1", "0", ".", "0", ".", "0", ".", "2", "/", "3", "2">>,
             <<"f", "d", "0", "0", ":", ":", "2", "/", "1", "2", "8">>,
             <<"1", "0", ".", "0", ".", "0", ".", "3", "/", "2", "4">> >>

\* C9: parseAwgConfig fails with no endpoint and exactly one diagnostic, the
\* first that applies of: the interface section has no keys; it has no
\* private key; no peer section was collected.  An [Interface] holding only a
\* PrivateKey, with no peers, gets "No [Peer] section found".
C9_DocumentValidation ==
    Returned("parseAwgConfig") =>
        LET s == ParseSections(arg)
            noKeys == DOMAIN s.interface = {}
            noPrivateKey == Falsy(Field(s.interface, A_privatekey))
        IN /\ noKeys => ret = AwgFailure("No [Interface] section found")
           /\ (~noKeys /\ noPrivateKey) =>
                 ret = AwgFailure("PrivateKey is required in [Interface] section")
           /\ (~noKeys /\ ~noPrivateKey /\ Len(s.peers) = 0) =>
                 ret = AwgFailure("No [Peer] section found")
           /\ arg = Join(<<D_interface, D_privateKey>>, "\n") =>
                 ret = AwgFailure("No [Peer] section found")

\* the document of an [Interface] with only a PrivateKey was decoded
C9_Witness ==
    /\ Returned("parseAwgConfig")
    /\ arg = Join(<<D_interface, D_privateKey>>, "\n")
    /\ ~ret.success

(***************************************************************************)
(* Further claims about the batch coordinators                             *)
(***************************************************************************)

\* the lines of the input that are neither blank nor a comment
AttemptedLines(ls) == SelectSeq(ls, LAMBDA l : ~SkippedLine(Trim(l)))

\* C11: in every result of parseProxyLinks successCount = |outbounds|,
\* errorCount = |errors| and totalLinks = successCount + errorCount; blank
\* lines and comment lines are not counted in totalLinks.
C11_TotalIsSum ==
    Returned("parseProxyLinks") =>
        /\ ret.successCount = Len(ret.outbounds)
        /\ ret.errorCount = Len(ret.errors)
        /\ ret.totalLinks = ret.successCount + ret.errorCount
        /\ ret.totalLinks = Len(AttemptedLines(arg.lines))

\* the tags of a list of outbounds are pairwise distinct
DistinctTags(outbounds) ==
    \A i, j \in 1..Len(outbounds) : i # j => outbounds[i].tag # outbounds[j].tag

\* C12: the tags of the outbounds a batch call returns are pairwise distinct.
C12_TagsDistinct ==
    (pc = "done" /\ call \in {"parseProxyLinks", "parseVlessLinks"}) =>
        DistinctTags(ret.outbounds)

(***************************************************************************)
(* Repeated calls: a caller decodes inputs in any order, any number of     *)
(* times, and records in memo the first result of each input               *)
(***************************************************************************)

\* the inputs of the repeated calls, by decoder
RepeatLinks ==
    [v1 |-> LineDefault, v2 |-> LineTagged]

RepeatTexts ==
    [p1 |-> Join(<<LineDefault, LineDefault>>, "\n"),
     p2 |-> Join(<<LineVmess, LineDefault, LineHash, LineDefault>>, "\n"),
     p3 |-> LineProxyTagged]

RepeatDocs ==
    [x1 |-> WellFormed(JO([outbounds |-> JA(<<E_plain, E_vmess, E_plain>>)])),
     x2 |-> WellFormed(JO([outbounds |-> JA(<<E_tagged>>)]))]

RepeatConfs ==
    [a1 |-> Join(<<D_interface, D_keyAddress, D_peer, D_peerNoKey>>, "\n")]

\* the caller records the result under the input's name, the first time
Recorded(id, result) == IF id \in DOMAIN memo THEN memo ELSE (id :> result) @@ memo

RepeatParseVlessLink ==
    /\ pc = "idle"
    /\ \E id \in DOMAIN RepeatLinks :
          /\ arg' = [id |-> id, input |-> RepeatLinks[id]]
          /\ ret' = ParseVlessLink(RepeatLinks[id], 1, Null)
    /\ call' = "parseVlessLink"
    /\ callee' = ""
    /\ pc' = "done"
    /\ UNCHANGED <<memo, store, error>>

\* parseProxyLinks whose proxyCounter starts after the outbounds of the
\* calls made before
RepeatParseProxyLinksCarried ==
    /\ pc = "idle"
    /\ \E id \in DOMAIN RepeatTexts :
          /\ arg' = [id |-> id, input |-> RepeatTexts[id]]
          /\ ret' = LET lines == NonBlank(Split(RepeatTexts[id], "\n"))
                        st == ProxyLinksLoop([outbounds |-> <<>>, errors |-> <<>>,
                                              proxyCounter |-> 1 + Cardinality(DOMAIN memo)],
                                             lines, 1)
                    IN [outbounds |-> st.outbounds, errors |-> st.errors,
                        totalLinks |-> Len(lines), successCount |-> Len(st.outbounds),
                        errorCount |-> Len(st.errors)]
    /\ call' = "parseProxyLinks"
    /\ callee' = ""
    /\ pc' = "done"
    /\ UNCHANGED <<memo, store, error>>

RepeatParseProxyLinks ==
    /\ pc = "idle"
    /\ \E id \in DOMAIN RepeatTexts :
          /\ arg' = [id |-> id, input |-> RepeatTexts[id]]
          /\ ret' = ParseProxyLinks(RepeatTexts[id])
    /\ call' = "parseProxyLinks"
    /\ callee' = ""
    /\ pc' = "done"
    /\ UNCHANGED <<memo, store, error>>

RepeatParseAmneziaConfig ==
    /\ pc = "idle"
    /\ \E id \in DOMAIN RepeatDocs :
          /\ arg' = [id |-> id, input |-> RepeatDocs[id]]
          /\ ret' = ParseAmneziaConfig(RepeatDocs[id])
    /\ call' = "parseAmneziaConfig"
    /\ callee' = ""
    /\ pc' = "done"
    /\ UNCHANGED <<memo, store, error>>

RepeatParseAwgConfig ==
    /\ pc = "idle"
    /\ \E id \in DOMAIN RepeatConfs :
          /\ arg' = [id |-> id, input |-> RepeatConfs[id]]
          /\ ret' = ParseAwgConfig(RepeatConfs[id])
    /\ call' = "parseAwgConfig"
    /\ callee' = ""
    /\ pc' = "done"
    /\ UNCHANGED <<memo, store, error>>

\* the call returns and the caller records its result
RepeatReturn ==
    /\ pc = "done"
    /\ memo' = Recorded(arg.id, ret)
    /\ UNCHANGED <<store, error>>
    /\ pc' = "idle"
    /\ call' = ""
    /\ arg' = <<>>
    /\ ret' = <<>>
    /\ callee' = ""

NextRepeat ==
    \/ RepeatParseVlessLink
    \/ RepeatParseProxyLinks
    \/ RepeatParseAmneziaConfig
    \/ RepeatParseAwgConfig
    \/ RepeatReturn

SpecRepeat == Init /\ [][NextRepeat]_vars



EntryOutcome(e) ==
    IF OptProp(e, "protocol") # JS(X_vless) THEN "protocol not supported, skipping"
    ELSE IF ~Truthy(OptFirst(OptProp(OptProp(e, "settings"), "vnext")))
    THEN "No vnext configuration found"
    ELSE IF ~Truthy(OptFirst(OptProp(OptFirst(OptProp(OptProp(e, "settings"), "vnext")),
                                     "users")))
    THEN "No user configuration found"
    ELSE "outbound"

\* the positions of the entries with the given outcome, in input order
Positions(es, Keep(_)) == SelectSeq([i \in 1..Len(es) |-> i], LAMBDA i : Keep(EntryOutcome(es[i])))

\* the accounting of C14 for the entries es and a returned result r
EntryAccounting(es, r) ==
    LET failed == Positions(es, LAMBDA o : o # "outbound")
        decoded == Positions(es, LAMBDA o : o = "outbound")
    IN /\ "threw" \notin DOMAIN r
       /\ Len(r.outbounds) + Len(r.errors) = Len(es)
       /\ Len(r.errors) = Len(failed)
       /\ \A k \in 1..Len(failed) :
             /\ r.errors[k].entry = failed[k]
             /\ r.errors[k].msg = EntryOutcome(es[failed[k]])
       /\ Len(r.outbounds) = Len(decoded)
       /\ \A k \in 1..Len(decoded) :
             r.outbounds[k].tag = IF Truthy(Prop(es[decoded[k]], "tag"))
                                  THEN Prop(es[decoded[k]], "tag").s
                                  ELSE S_proxy_p \o NumText(k)
       /\ r.success = (Len(r.outbounds) > 0)

\* C14: on a document with an outbounds array every entry yields exactly one
\* of an outbound or a diagnostic: a skip diagnostic for a protocol other
\* than vless, a per-entry diagnostic for a vless entry without a first vnext
\* or a first user, an outbound in input order for any other; success is
\* true exactly when an outbound was produced.
C14_EntryAccounting ==
    (Returned("parseAmneziaConfig") /\ HasEntries(arg)) =>
        EntryAccounting(EntriesOf(arg), ret)

\* C14 restricted to arrays without a null entry
C14_ObjectEntryAccounting ==
    (/\ Returned("parseAmneziaConfig")
     /\ HasEntries(arg)
     /\ \A i \in 1..Len(EntriesOf(arg)) : ~Nullish(EntriesOf(arg)[i])) =>
        EntryAccounting(EntriesOf(arg), ret)

\* C14 restricted, its case: a skipped entry was followed by one that decoded
C14_Witness ==
    /\ Returned("parseAmneziaConfig")
    /\ HasEntries(arg)
    /\ EntriesOf(arg) = <<E_vmess, E_plain>>
    /\ ret.success
    /\ Len(ret.errors) = 1
    /\ Len(ret.outbounds) = 1

\* C15: malformed JSON, or a document whose outbounds key is absent or not an
\* array, returns success=false, no outbound and exactly one diagnostic, which
\* names no entry.
C15_DocumentFatal ==
    (Returned("parseAmneziaConfig") /\ ~HasEntries(arg)) =>
        /\ "threw" \notin DOMAIN ret
        /\ ~ret.success
        /\ ret.outbounds = <<>>
        /\ Len(ret.errors) = 1
        /\ ret.errors[1].entry = 0
        /\ ret.errors[1].msg = IF arg.wellFormed THEN "No outbounds array found in config"
                               ELSE "Invalid JSON"

(***************************************************************************)
(* Further claims about parseAwgConfig                                     *)
(***************************************************************************)

\* what the peer loop owes a collected peer section: "peer", or the text of
\* its diagnostic
PeerOutcome(peerData) ==
    IF Falsy(Field(peerData, A_publickey)) THEN "PublicKey is required"
    ELSE IF Falsy(Field(peerData, A_endpoint)) THEN "Endpoint is required"
    ELSE IF ParseEndpoint(Field(peerData, A_endpoint)).null THEN "Invalid Endpoint format"
    ELSE "peer"

\* the positions of the collected sections that survive, or that do not
PeerPositions(ps, survive) ==
    SelectSeq([i \in 1..Len(ps) |-> i], LAMBDA i : (PeerOutcome(ps[i]) = "peer") = survive)

\* C16: once the document-level checks pass, every collected peer section
\* becomes one peer of the endpoint or yields exactly one diagnostic naming
\* its 1-based position: the peers are the surviving sections in document
\* order, the diagnostics the rejected ones, |peers| + |errors| is the number
\* of collected sections; success is true and an endpoint is returned exactly
\* when a peer survived, and the diagnostics come with a successful endpoint.
C16_PeerValidation ==
    (Returned("parseAwgConfig") /\ AwgFatal(ParseSections(arg)) = "") =>
        LET ps == ParseSections(arg).peers
            kept == PeerPositions(ps, TRUE)
            skipped == PeerPositions(ps, FALSE)
            peers == IF "endpoint" \in DOMAIN ret THEN ret.endpoint.peers ELSE <<>>
        IN /\ ret.success = (Len(kept) > 0)
           /\ ("endpoint" \in DOMAIN ret) = (Len(kept) > 0)
           /\ Len(peers) + Len(ret.errors) = Len(ps)
           /\ Len(peers) = Len(kept)
           /\ \A k \in 1..Len(kept) :
                 /\ peers[k].public_key = Field(ps[kept[k]], A_publickey)
                 /\ peers[k].address = ParseEndpoint(Field(ps[kept[k]], A_endpoint)).address
                 /\ peers[k].port = ParseEndpoint(Field(ps[kept[k]], A_endpoint)).port
           /\ Len(ret.errors) = Len(skipped)
           /\ \A k \in 1..Len(skipped) :
                 ret.errors[k] = PeerError(skipped[k], PeerOutcome(ps[skipped[k]]))

\* a peer without an endpoint port is skipped and the peer after it survives
C16_Witness ==
    /\ Returned("parseAwgConfig")
    /\ arg = Join(<<D_interfaceKey, D_peerBadEndpoint, D_peerV6>>, "\n")
    /\ ret.success
    /\ Len(ret.endpoint.peers) = 1
    /\ ret.endpoint.peers[1].address = <<":", ":", "1">>
    /\ ret.endpoint.peers[1].port = 2
    /\ ret.endpoint.peers[1].public_key = <<"L">>
    /\ ret.errors = <<PeerError(1, "Invalid Endpoint format")>>

\* the lines parseSections walks
CleanLines(content) == Split(NormalizeLineEndings(StripBom(content)), "\n")

\* line i of lines is a section header of either kind
IsSectionHeader(lines, i) == ToLower(Trim(lines[i])) \in {A_interface, A_peer}

\* the last line of the section whose header is line h: the line before the
\* next header, or the last line of the document
SectionEnd(lines, h) ==
    LET later == {j \in (h + 1)..Len(lines) : IsSectionHeader(lines, j)}
    IN IF later = {} THEN Len(lines)
       ELSE (CHOOSE j \in later : \A k \in later : j <= k) - 1

\* the keys and values written in the section whose header is line h, a
\* repeated key keeping its last value
SectionAt(lines, h) ==
    LET body == {j \in (h + 1)..SectionEnd(lines, h) : ~ParseLine(lines[j]).null}
        keyOf(j) == ToLower(ParseLine(lines[j]).key)
    IN [k \in {keyOf(j) : j \in body} |->
           LET last == CHOOSE j \in body :
                          /\ keyOf(j) = k
                          /\ \A m \in body : keyOf(m) = k => m <= j
           IN ParseLine(lines[last]).value]

\* the [Peer] sections of a document that hold at least one key = value line,
\* in document order
PeerSections(content) ==
    LET lines == CleanLines(content)
        hs == SelectSeq([i \in 1..Len(lines) |-> i],
                        LAMBDA i : /\ ToLower(Trim(lines[i])) = A_peer
                                   /\ DOMAIN SectionAt(lines, i) # {})
    IN [k \in 1..Len(hs) |-> SectionAt(lines, hs[k])]

\* C17: for any order and number of [Interface] and [Peer] headers, every
\* [Peer] section that accumulated at least one key = value line is in the
\* peer list of parseSections exactly once, in document order: none is lost
\* when an [Interface] header comes between two [Peer] sections or after the
\* last one.
C17_NoPeerLost ==
    Returned("parseAwgConfig") => ParseSections(arg).peers = PeerSections(arg)

\* C17 for the documents in which no [Interface] header follows a [Peer] header
C17_PeersKeptInPeerState ==
    (/\ Returned("parseAwgConfig")
     /\ LET lines == CleanLines(arg)
        IN \A i, j \in 1..Len(lines) :
              (i < j /\ ToLower(Trim(lines[i])) = A_peer)
                 => ToLower(Trim(lines[j])) # A_interface) =>
        ParseSections(arg).peers = PeerSections(arg)

(***************************************************************************)
(* Further claims about parseProxyLinks                                    *)
(***************************************************************************)

\* the 1-based positions, in the input as given, of the lines that are
\* attempted and fail
FailingPositions(ls) ==
    SelectSeq([i \in 1..Len(ls) |-> i],
              LAMBDA i : /\ ~SkippedLine(Trim(ls[i]))
                         /\ ~ParseProxyLink(Trim(ls[i]), i).success)

\* C18: the lineNumber of each diagnostic of parseProxyLinks is the 1-based
\* position of the failing line in the original input, blank lines and
\* comment lines before it counted.
C18_LineNumberIsPosition ==
    Returned("parseProxyLinks") =>
        /\ Len(ret.errors) = Len(FailingPositions(arg.lines))
        /\ \A k \in 1..Len(ret.errors) :
              ret.errors[k].lineNumber = FailingPositions(arg.lines)[k]

\* C18 for the inputs without a blank line: comment lines are counted
C18_LineNumberWithoutBlanks ==
    (/\ Returned("parseProxyLinks")
     /\ \A i \in 1..Len(arg.lines) : Trim(arg.lines[i]) # <<>>) =>
        /\ Len(ret.errors) = Len(FailingPositions(arg.lines))
        /\ \A k \in 1..Len(ret.errors) :
              ret.errors[k].lineNumber = FailingPositions(arg.lines)[k]

\* the attempted lines of the input that decode, trimmed, in input order
DecodedLines(ls) ==
    SelectSeq([i \in 1..Len(AttemptedLines(ls)) |-> Trim(AttemptedLines(ls)[i])],
              LAMBDA l : ParseProxyLink(l, 1).success)

\* the #fragment of a link after its scheme, Null when it has none
FragmentOf(line) ==
    LET parts == Split(From(line, 9), "#")
    IN IF Len(parts) >= 2 THEN parts[2] ELSE Null

\* C19: parseProxyLinks replaces a tag by proxy-p<counter> only when the
\* decoder synthesized it (the link has no #fragment); a tag taken from the
\* #fragment is returned unchanged whatever its text, a name that begins with
\* "proxy-p" included.
C19_FragmentTagKept ==
    Returned("parseProxyLinks") =>
        /\ Len(ret.outbounds) = Len(DecodedLines(arg.lines))
        /\ \A k \in 1..Len(ret.outbounds) :
              LET fragment == FragmentOf(DecodedLines(arg.lines)[k])
              IN ret.outbounds[k].tag =
                    IF ~Falsy(fragment) THEN DecodeURIComponent(fragment).val
                    ELSE S_proxy_p \o NumText(k)

\* C19 for the inputs in which no #fragment begins with "proxy-p"
C19_OtherFragmentTagKept ==
    (/\ Returned("parseProxyLinks")
     /\ \A i \in 1..Len(arg.lines) :
           ~StartsWith(Or(FragmentOf(Trim(arg.lines[i])), <<>>), S_proxy_p)) =>
        /\ Len(ret.outbounds) = Len(DecodedLines(arg.lines))
        /\ \A k \in 1..Len(ret.outbounds) :
              LET fragment == FragmentOf(DecodedLines(arg.lines)[k])
              IN ret.outbounds[k].tag =
                    IF ~Falsy(fragment) THEN DecodeURIComponent(fragment).val
                    ELSE S_proxy_p \o NumText(k)

(***************************************************************************)
(* Further claims about parseVlessLink                                     *)
(***************************************************************************)

\* the "key=value" pieces of a query with, of the pieces that share a key,
\* only the last (keepLast) or only the first kept
OneOccurrence(pieces, keepLast) ==
    LET others(i) == IF keepLast THEN (i + 1)..Len(pieces) ELSE 1..(i - 1)
        kept == SelectSeq([i \in 1..Len(pieces) |-> i],
                          LAMBDA i : \A j \in others(i) :
                                        QueryPair(pieces[j]).name # QueryPair(pieces[i]).name)
    IN [k \in 1..Len(kept) |-> pieces[kept[k]]]

\* the result of parseVlessLink on the link a with its query replaced
WithQuery(a, query) ==
    ParseVlessLink(LinkText([a.shape EXCEPT !.query = query]), a.lineNumber, a.defaultTag)

\* two results of parseVlessLink agree in outcome, descriptor and diagnostic
SameDecoding(r1, r2) ==
    /\ r1.success = r2.success
    /\ r1.success => r1.outbound = r2.outbound
    /\ ~r1.success => r1.error = r2.error

\* a key occurs more than once in the query of the link a
HasDuplicateKey(a) == OneOccurrence(a.shape.query, TRUE) # a.shape.query

\* C20: when a key occurs more than once in the query string, parseVlessLink
\* builds the descriptor from the value of its last occurrence: the link
\* decodes as it would with only the last occurrence of every key written.
C20_LastOccurrenceUsed ==
    Returned("parseVlessLink") =>
        SameDecoding(ret, WithQuery(arg, OneOccurrence(arg.shape.query, TRUE)))

\* the link decodes as it would with only the first occurrence of every key
C20_FirstOccurrenceUsed ==
    Returned("parseVlessLink") =>
        SameDecoding(ret, WithQuery(arg, OneOccurrence(arg.shape.query, FALSE)))

\* a link with flow=a&flow=b decoded with flow a
C20_FirstWitness ==
    /\ Returned("parseVlessLink")
    /\ HasDuplicateKey(arg)
    /\ ret.success
    /\ "flow" \in DOMAIN ret.outbound
    /\ ret.outbound.flow = <<"a">>

\* the part of a link between its scheme and its first "?" or "#"
HeadOf(link) == Split(Split(From(Trim(link), 9), "#")[1], "?")[1]

\* the "key=value" pieces of a query without their "@" characters
WithoutAt(pieces) ==
    [i \in 1..Len(pieces) |-> SelectSeq(pieces[i], LAMBDA c : c # "@")]

\* the link a passes the checks that come before the "@" check
ReachesSplit(a) ==
    /\ StartsWith(Trim(a.link), S_vless)
    /\ (a.shape.frag = Null \/ a.shape.frag = <<>> \/ DecodeURIComponent(a.shape.frag).ok)

\* what C21 says of the link a and its result r
SplitBeforeQuery(a, r) ==
    LET head == HeadOf(a.link)
        at == LastIndexOf(head, "@")
        plain == WithQuery(a, WithoutAt(a.shape.query))
    IN /\ at = 0 =>
             /\ ~r.success
             /\ r.error = Err("Invalid format: missing @ separator")
       /\ (at # 0 /\ r.success) =>
             /\ r.outbound.uuid = SubSeq(head, 1, at - 1)
             /\ r.outbound.server = ParseHostPort(From(head, at + 1)).server
       /\ plain.success =>
             /\ r.success
             /\ r.outbound.uuid = plain.outbound.uuid
             /\ r.outbound.server = plain.outbound.server

\* C21: parseVlessLink separates credential from host and port at the last
\* "@" before the query string: an "@" after the first "?" never moves the
\* split point, so credential and server are the same with or without "@" in
\* the parameter values; a link with no "@" before the query is rejected with
\* "Invalid format: missing @ separator".
C21_SplitBeforeQuery ==
    (Returned("parseVlessLink") /\ ReachesSplit(arg)) => SplitBeforeQuery(arg, ret)

\* C21 for the links whose query holds no "@"
C21_SplitWithoutQueryAt ==
    (/\ Returned("parseVlessLink")
     /\ ReachesSplit(arg)
     /\ WithoutAt(arg.shape.query) = arg.shape.query) => SplitBeforeQuery(arg, ret)

\* no check is violated
NoDiagnostic == [msg |-> "", arg |-> <<>>]

\* the diagnostic of the earliest check a link violates, in the order empty
\* input, scheme, "@" separator, credential length, host and port, security
\* value, Reality public key, transport type; the credential is the text
\* before the last "@" that precedes the query string
EarliestViolated(link) ==
    LET trimmed == Trim(link)
        beforeFragment == Split(From(trimmed, 9), "#")[1]
        pieces == Split(beforeFragment, "?")
        head == pieces[1]
        at == LastIndexOf(head, "@")
        hp == ParseHostPort(From(head, at + 1))
        params == URLSearchParams(IF Len(pieces) >= 2 THEN pieces[2] ELSE <<>>)
        security == Or(Get(params, K_security), V_none)
        transportType == Or(Get(params, K_type), V_tcp)
    IN IF trimmed = <<>> THEN Err("Empty link")
       ELSE IF ~StartsWith(trimmed, S_vless) THEN Err("Link must start with vless://")
       ELSE IF at = 0 THEN Err("Invalid format: missing @ separator")
       ELSE IF InvalidUuid(SubSeq(head, 1, at - 1)) THEN Err("Invalid UUID format")
       ELSE IF hp.err # "" THEN Err(hp.err)
       ELSE IF hp.server = <<>> THEN Err("Missing server address")
       ELSE IF InvalidPort(hp.port) THEN Err("Invalid port number")
       ELSE IF security \notin VALID_SECURITY
       THEN ErrArg("Invalid security type: ", security)
       ELSE IF security = V_reality /\ MissingPbk(Get(params, K_pbk))
       THEN Err("Reality requires public key (pbk)")
       ELSE IF transportType \notin VALID_TRANSPORTS
       THEN ErrArg("Invalid transport type: ", transportType)
       ELSE NoDiagnostic

\* C22: the checks of parseVlessLink run in a fixed order and fail fast:
\* a link that violates one or several of them is rejected with the
\* diagnostic of the earliest violated check, and with that one only.
C22_EarliestCheckReported ==
    (Returned("parseVlessLink") /\ EarliestViolated(arg.link) # NoDiagnostic) =>
        /\ ~ret.success
        /\ ret.error = EarliestViolated(arg.link)

\* C22 for the links whose fragment percent-decodes and whose query holds no
\* "@"; a link that violates no check decodes, or fails on a parameter that
\* does not percent-decode
C22_OrderOnPlainLinks ==
    (/\ Returned("parseVlessLink")
     /\ arg.shape.frag = Null \/ arg.shape.frag = <<>> \/ DecodeURIComponent(arg.shape.frag).ok
     /\ WithoutAt(arg.shape.query) = arg.shape.query) =>
        IF EarliestViolated(arg.link) # NoDiagnostic
        THEN ~ret.success /\ ret.error = EarliestViolated(arg.link)
        ELSE ret.success \/ ret.error = ErrArg("Parse error: ", URIMalformed)

\* C22 restricted, its case: a short credential together with a bad port
C22_ShortCredentialBadPort ==
    /\ Returned("parseVlessLink")
    /\ arg.shape.cred = Credential(31)
    /\ arg.shape.at
    /\ arg.shape.hostPort = <<"a", ".", "i", "o", ":", "0">>
    /\ ret.error = Err("Invalid UUID format")

(***************************************************************************)
(* Further claims about parseProxyLink                                     *)
(***************************************************************************)

\* the result of parseProxyLink on the link a with its scheme written s
WithScheme(a, s) ==
    ParseProxyLink(LinkText([a.shape EXCEPT !.scheme = s]), a.lineNumber)

\* C23: the case-insensitive classification of parseProxyLink is honoured
\* end to end: when a link decodes with its scheme written "vless://", the
\* same link with the scheme in any other letter case is routed to
\* parseVlessLink and yields the same successful descriptor.
C23_SchemeCaseHonoured ==
    (/\ Returned("parseProxyLink")
     /\ ToLower(arg.shape.scheme) = S_vless
     /\ WithScheme(arg, S_vless).success) =>
        /\ callee = "parseVlessLink"
        /\ ret.success
        /\ ret.outbound = WithScheme(arg, S_vless).outbound

\* the routing half of C23: the link reaches parseVlessLink
C23_SchemeCaseRouted ==
    (Returned("parseProxyLink") /\ ToLower(arg.shape.scheme) = S_vless) =>
        callee = "parseVlessLink"

\* a link with its scheme in capitals was routed to parseVlessLink
C23_RoutedWitness ==
    /\ Returned("parseProxyLink")
    /\ arg.shape.scheme = <<"V", "L", "E", "S", "S", ":", "/", "/">>
    /\ callee = "parseVlessLink"
    /\ ~ret.success

(***************************************************************************)
(* Further claims about the TlsConfig of both decoders                     *)
(***************************************************************************)

\* the uTLS fingerprint of an outbound is absent or one of the enumerated set
FingerprintEnumerated(outbound) ==
    ("tls" \in DOMAIN outbound /\ "utls" \in DOMAIN outbound.tls) =>
        outbound.tls.utls.fingerprint \in VALID_FINGERPRINTS

\* C24: in every TlsConfig produced by parseVlessLink or parseAmneziaConfig a
\* uTLS fingerprint, when present, is one of chrome, firefox, edge, safari,
\* 360, qq, ios, android, random, randomized: a fingerprint outside the set
\* is dropped and the entry still decodes.
C24_FingerprintEnumerated ==
    /\ (Returned("parseVlessLink") /\ ret.success) => FingerprintEnumerated(ret.outbound)
    /\ (Returned("parseAmneziaConfig") /\ "threw" \notin DOMAIN ret) =>
          \A k \in 1..Len(ret.outbounds) : FingerprintEnumerated(ret.outbounds[k])

\* the half of C24 about parseVlessLink: a fingerprint parameter outside the
\* set leaves the descriptor without utls and does not fail the link
C24_LinkFingerprintDropped ==
    (Returned("parseVlessLink") /\ ret.success) =>
        /\ FingerprintEnumerated(ret.outbound)
        /\ \A i \in 1..Len(arg.shape.query) :
              (/\ QueryPair(arg.shape.query[i]).name \in {K_fp, K_fingerprint}
               /\ QueryPair(arg.shape.query[i]).value \notin VALID_FINGERPRINTS
               /\ "tls" \in DOMAIN ret.outbound) =>
                 "utls" \notin DOMAIN ret.outbound.tls

\* a link with fingerprint=opera decoded with a TlsConfig and no utls
C24_LinkWitness ==
    /\ Returned("parseVlessLink")
    /\ ret.success
    /\ \E i \in 1..Len(arg.shape.query) :
          QueryPair(arg.shape.query[i]) = [name |-> K_fingerprint,
                                           value |-> <<"o", "p", "e", "r", "a">>]
    /\ "tls" \in DOMAIN ret.outbound
    /\ "utls" \notin DOMAIN ret.outbound.tls

(***************************************************************************)
(* parseAwgConfig on documents with number fields: an [Interface] section  *)
(* and a [Peer] section, each of up to MaxNumericChunks chunks of lines    *)
(***************************************************************************)

N_privateKey == <<"P", "r", "i", "v", "a", "t", "e", "K", "e", "y", " ", "=",
                " ", "X">>

\* MTU = x
N_mtuText == <<"M", "T", "U", " ", "=", " ", "x">>

\* MTU = 0
N_mtuZero == <<"M", "T", "U", " ", "=", " ", "0">>

\* S1 = 7
N_s1 == <<"S", "1", " ", "=", " ", "7">>

\* PublicKey = K, then Endpoint = h:1
N_peerKeyEndpoint == <<"P", "u", "b", "l", "i", "c", "K", "e", "y", " ", "=",
                     " ", "K", "\n", "E", "n", "d", "p", "o", "i", "n", "t", " ", "=", " ", "h", ":", "1">>

\* PersistentKeepalive = x
N_keepaliveText == <<"P", "e", "r", "s", "i", "s", "t", "e", "n", "t", "K",
                   "e", "e", "p", "a", "l", "i", "v", "e", " ", "=", " ",
                   "x">>

\* PersistentKeepalive = 0
N_keepaliveZero == <<"P", "e", "r", "s", "i", "s", "t", "e", "n", "t", "K",
                   "e", "e", "p", "a", "l", "i", "v", "e", " ", "=", " ",
                   "0">>

\* AllowedIPs = 0.0.0.0/0
N_allowedIps == <<"A", "l", "l", "o", "w", "e", "d", "I", "P", "s", " ", "=",
                " ", "0", ".", "0", ".", "0", ".", "0", "/", "0">>

InterfaceChunks == {N_privateKey, N_mtuText, N_mtuZero, N_s1}

PeerChunks == {N_peerKeyEndpoint, N_keepaliveText, N_keepaliveZero, N_allowedIps}

MaxNumericChunks == 2

ChunkSeqs(chunks) == UNION {[1..n -> chunks] : n \in 0..MaxNumericChunks}

NumericArgs == {[iface |-> i, peer |-> p] :
                   i \in ChunkSeqs(InterfaceChunks), p \in ChunkSeqs(PeerChunks)}

\* the text of a document made of its chunks
NumericText(a) == Join(<<D_interface>> \o a.iface \o <<D_peerHeader>> \o a.peer, "\n")

CallParseAwgConfigNumeric ==
    /\ pc = "idle"
    /\ \E a \in NumericArgs :
          /\ arg' = a
          /\ ret' = ParseAwgConfig(NumericText(a))
    /\ call' = "parseAwgConfig"
    /\ callee' = ""
    /\ pc' = "done"
    /\ UNCHANGED <<memo, store, error>>

NextAwgNumeric == CallParseAwgConfigNumeric \/ Return

SpecAwgNumeric == Init /\ [][NextAwgNumeric]_vars

\* chunk i of a section is a number field whose value does not parse, written
\* once in the section
UnparsedNumber(chunks, i) ==
    /\ ~ParseLine(chunks[i]).null
    /\ ToLower(ParseLine(chunks[i]).key) \in {A_mtu, A_persistentkeepalive}
    /\ ParseInt(ParseLine(chunks[i]).value).nan
    /\ \A j \in 1..Len(chunks) :
          j # i => ToLower(ParseLine(chunks[j]).key) # ToLower(ParseLine(chunks[i]).key)

\* chunk i of a section is a number field of value 0, written once
ZeroNumber(chunks, i) ==
    /\ chunks[i] \in {N_mtuZero, N_keepaliveZero}
    /\ \A j \in 1..Len(chunks) : j # i => chunks[j] # N_mtuText /\ chunks[j] # N_keepaliveText
    /\ \A j \in 1..Len(chunks) : j # i => chunks[j] # chunks[i]

\* a sequence without its element i
Without(s, i) == SubSeq(s, 1, i - 1) \o SubSeq(s, i + 1, Len(s))

\* a record without the field name
Minus(rec, name) == [k \in DOMAIN rec \ {name} |-> rec[k]]

\* the results r and r2 agree in everything but the interface field name,
\* which r does not have
SameButInterfaceField(r, r2, name) ==
    /\ r.success = r2.success
    /\ r.errors = r2.errors
    /\ r.success =>
          /\ name \notin DOMAIN r.endpoint
          /\ Minus(r.endpoint, name) = Minus(r2.endpoint, name)

\* the results r and r2 agree in everything but the field name of their
\* peers, which the peers of r do not have
SameButPeerField(r, r2, name) ==
    /\ r.success = r2.success
    /\ r.errors = r2.errors
    /\ r.success =>
          /\ Minus(r.endpoint, "peers") = Minus(r2.endpoint, "peers")
          /\ Len(r.endpoint.peers) = Len(r2.endpoint.peers)
          /\ \A k \in 1..Len(r.endpoint.peers) :
                /\ name \notin DOMAIN r.endpoint.peers[k]
                /\ Minus(r.endpoint.peers[k], name) = Minus(r2.endpoint.peers[k], name)

\* what C25 says of the document a and its result r, for the sections of at
\* least least chunks
NumericLeniency(a, r, least) ==
    /\ \A i \in 1..Len(a.iface) :
          (Len(a.iface) >= least /\ UnparsedNumber(a.iface, i)) =>
              SameButInterfaceField(
                  r, ParseAwgConfig(NumericText([a EXCEPT !.iface = Without(@, i)])), "mtu")
    /\ \A i \in 1..Len(a.peer) :
          (Len(a.peer) >= least /\ UnparsedNumber(a.peer, i)) =>
              SameButPeerField(
                  r, ParseAwgConfig(NumericText([a EXCEPT !.peer = Without(@, i)])),
                  "persistent_keepalive_interval")
    /\ \A i \in 1..Len(a.iface) :
          (r.success /\ ZeroNumber(a.iface, i)) =>
              "mtu" \in DOMAIN r.endpoint /\ r.endpoint.mtu = 0
    /\ \A i \in 1..Len(a.peer) :
          (r.success /\ ZeroNumber(a.peer, i)) =>
              /\ "persistent_keepalive_interval" \in DOMAIN r.endpoint.peers[1]
              /\ r.endpoint.peers[1].persistent_keepalive_interval = 0

\* the call is one of parseAwgConfig on a document made of chunks
ReturnedNumeric == Returned("parseAwgConfig") /\ DOMAIN arg = {"iface", "peer"}

\* C25: a number field whose value does not parse as a base-10 integer is
\* absent from the result of parseAwgConfig and adds no diagnostic, and the
\* rest of the result is that of the same document without the line; a value
\* that parses to 0 is kept as 0.
C25_NumericLeniency == ReturnedNumeric => NumericLeniency(arg, ret, 1)

\* C25 for a line whose section holds another key = value line
C25_NumericLeniencyInSection == ReturnedNumeric => NumericLeniency(arg, ret, 2)

\* a document with PrivateKey and MTU = x decoded without mtu
C25_Witness ==
    /\ ReturnedNumeric
    /\ arg.iface = <<N_privateKey, N_mtuText>>
    /\ arg.peer = <<N_peerKeyEndpoint, N_keepaliveZero>>
    /\ ret.success
    /\ "mtu" \notin DOMAIN ret.endpoint
    /\ ret.endpoint.peers[1].persistent_keepalive_interval = 0
    /\ ret.errors = <<>>

(***************************************************************************)
(* Further claims about buildConfig                                        *)
(***************************************************************************)

\* the elements of a sequence
Range(s) == {s[i] : i \in 1..Len(s)}

\* the tags an output defines: those of its outbounds and of its endpoints
DefinedTags(config) ==
    Range(Tags(config.outbounds))
        \cup (IF "endpoints" \in DOMAIN config THEN Range(Tags(config.endpoints)) ELSE {})

\* the tags an output refers to: the lists and the default of its policy
\* outbounds, route.final and the outbound of every route rule
ReferencedTags(config) ==
    UNION {Range(o.outbounds) : o \in {x \in Range(config.outbounds) : "outbounds" \in DOMAIN x}}
        \cup {o.default : o \in {x \in Range(config.outbounds) : "default" \in DOMAIN x}}
        \cup {config.route.final}
        \cup {r.outbound : r \in Range(config.route.rules)}

\* C26: in every output of buildConfig each tag referred to by the selector's
\* list and default, the urltest's list, route.final and the route rules
\* names an outbound or endpoint of the same output; "auto" is referred to
\* only when the urltest exists and the selector's default is in its own list.
C26_ReferentialIntegrity ==
    Returned("buildConfig") =>
        /\ ReferencedTags(ret) \subseteq DefinedTags(ret)
        /\ T_auto \in ReferencedTags(ret) => OfType(ret, "urltest") # <<>>
        /\ \A o \in Range(OfType(ret, "selector")) : o.default \in Range(o.outbounds)

\* an outbound and an endpoint were supplied and the selector offers both
C26_Witness ==
    /\ Returned("buildConfig")
    /\ Tags(arg.outbounds) = << <<"a">> >>
    /\ Tags(EndpointsOf(arg)) = << <<"b">> >>
    /\ ReferencedTags(ret) = {T_auto, T_proxy, T_direct, <<"a">>, <<"b">>}
    /\ DefinedTags(ret) = {T_auto, T_proxy, T_direct, <<"a">>, <<"b">>}

\* the elements of a sequence are pairwise distinct
Distinct(s) == \A i, j \in 1..Len(s) : i # j => s[i] # s[j]

\* the tags of the output's outbounds, then those of its endpoints
OutputTags(config) ==
    Tags(config.outbounds)
        \o (IF "endpoints" \in DOMAIN config THEN Tags(config.endpoints) ELSE <<>>)

\* C27: whenever the supplied outbound and endpoint tags are pairwise
\* distinct, the tags of the output's outbounds together with the endpoint
\* tags are pairwise distinct: "proxy", "auto" and "direct" never collide
\* with a decoded tag.
C27_TagsUnique ==
    (Returned("buildConfig") /\ Distinct(SuppliedTags(arg))) => Distinct(OutputTags(ret))

\* C27 for supplied tags other than "proxy", "auto" and "direct"
C27_UniqueUnlessReserved ==
    (/\ Returned("buildConfig")
     /\ Distinct(SuppliedTags(arg))
     /\ Range(SuppliedTags(arg)) \cap {T_proxy, T_auto, T_direct} = {}) =>
        Distinct(OutputTags(ret))

\* C27 restricted, its case: two outbounds a, b beside the three policy outbounds
C27_UniqueWitness ==
    /\ Returned("buildConfig")
    /\ Tags(arg.outbounds) = << <<"a">>, <<"b">> >>
    /\ Distinct(OutputTags(ret))
    /\ Len(OutputTags(ret)) = 5

(***************************************************************************)
(* The wizard: the store (stores/config.ts) and the handlers of the three  *)
(* steps (ImportStep.tsx, PresetsStep.tsx, ResultStep.tsx).  App renders   *)
(* the component of store.step, so a handler runs only at its own step.    *)
(***************************************************************************)

\* nextStep and prevStep of the store
NextStepOf(st) == [st EXCEPT !.step = IF @ + 1 < 3 THEN @ + 1 ELSE 3]

PrevStepOf(st) == [st EXCEPT !.step = IF @ - 1 > 1 THEN @ - 1 ELSE 1]

\* a reset that clears the collections and leaves the step
ResetKeepsStep(st) == [st EXCEPT !.outbounds = <<>>, !.endpoints = <<>>]

\* handleReset: clearOutbounds(); clearEndpoints(); setStep(1)
ResetOf(st) == [st EXCEPT !.outbounds = <<>>, !.endpoints = <<>>, !.step = 1]

\* an import of outbounds that leaves the stored endpoints
OutboundsImportedBesideEndpoints(st, converted) == [st EXCEPT !.outbounds = converted]

\* setEndpoints([]); setOutbounds(converted)
OutboundsImported(st, converted) ==
    [st EXCEPT !.endpoints = <<>>, !.outbounds = converted]

\* setOutbounds([]); setEndpoints([awgEndpoint])
EndpointImported(st, awgEndpoint) ==
    [st EXCEPT !.outbounds = <<>>, !.endpoints = <<awgEndpoint>>]

\* the Outbound handleParse stores for a decoded outbound
ConvertedOutbound(o) ==
    [type |-> o.type, tag |-> o.tag, server |-> o.server,
     server_port |-> o.server_port, uuid |-> o.uuid]
    @@ (IF "flow" \in DOMAIN o /\ ~Falsy(o.flow) THEN [flow |-> o.flow] ELSE NoFields)
    @@ (IF "tls" \in DOMAIN o THEN [tls |-> o.tls] ELSE NoFields)
    @@ (IF "transport" \in DOMAIN o THEN [transport |-> o.transport] ELSE NoFields)

Converted(outbounds) == [i \in 1..Len(outbounds) |-> ConvertedOutbound(outbounds[i])]

\* the AwgEndpointConfig handleParse stores for a decoded endpoint
ConvertedEndpoint(ep) ==
    [type |-> "awg", tag |-> ep.tag, private_key |-> ep.private_key,
     address |-> ep.address, peers |-> ep.peers]
    @@ [k \in DOMAIN ep \cap {"useIntegratedTun", "mtu", "listen_port", "jc", "jmin",
                              "jmax", "s1", "s2", "s3", "s4", "h1", "h2", "h3", "h4",
                              "i1", "i2", "i3", "i4", "i5"} |-> ep[k]]

\* the text setError is given: the diagnostics of the decoder, or the fixed
\* text of the handler when there is none
Shown(errors, fallback) ==
    IF errors # <<>> THEN [shown |-> TRUE, fallback |-> "", errors |-> errors]
    ELSE [shown |-> TRUE, fallback |-> fallback, errors |-> <<>>]

\* the store and the error after handleParse ran in a mode on an input; a
\* text input is blank when it trims to nothing, a thrown exception is caught
ParsedVless(st, input) ==
    IF Trim(input) = <<>>
    THEN [store |-> st, error |-> Shown(<<>>, "enter data to import")]
    ELSE Const(ParseVlessLinks(input), LAMBDA result :
        IF Len(result.outbounds) = 0
        THEN [store |-> st,
              error |-> Shown([i \in 1..Len(result.errors) |->
                                  [lineNumber |-> result.errors[i].lineNumber,
                                   error |-> result.errors[i].error]],
                              "no valid VLESS links found")]
        ELSE [store |-> NextStepOf(OutboundsImported(st, Converted(result.outbounds))),
              error |-> NoError])

\* a text of blanks only: it is refused before it is handed to a decoder
BlankDocument == [wellFormed |-> FALSE, value |-> JUndef, blank |-> TRUE]

ParsedAmnezia(st, input) ==
    IF "blank" \in DOMAIN input
    THEN [store |-> st, error |-> Shown(<<>>, "enter data to import")]
    ELSE Const(ParseAmneziaConfig(input), LAMBDA result :
        IF "threw" \in DOMAIN result
        THEN [store |-> st, error |-> Shown(<<result.threw>>, "")]
        ELSE IF Len(result.outbounds) = 0
        THEN [store |-> st, error |-> Shown(result.errors, "no valid outbounds found")]
        ELSE [store |-> NextStepOf(OutboundsImported(st, Converted(result.outbounds))),
              error |-> NoError])

ParsedAwg(st, input) ==
    IF Trim(input) = <<>>
    THEN [store |-> st, error |-> Shown(<<>>, "enter data to import")]
    ELSE Const(ParseAwgConfig(input), LAMBDA result :
        IF ~result.success \/ "endpoint" \notin DOMAIN result
        THEN [store |-> st, error |-> Shown(result.errors, "AWG config parse error")]
        ELSE [store |-> NextStepOf(EndpointImported(st, ConvertedEndpoint(result.endpoint))),
              error |-> NoError])

\* the inputs a user imports in each mode
WizardLinks == {LineDefault, Join(<<LineTagged, LineBadPort>>, "\n"), LineBadPort,
                LineHash, LineBlank}

WizardDocs == {BlankDocument, Malformed, WellFormed(JO([outbounds |-> JA(<<>>)])),
               WellFormed(JO([outbounds |-> JA(<<E_plain>>)])),
               WellFormed(JO([outbounds |-> JA(<<E_vmess, E_tls>>)])),
               WellFormed(JO([outbounds |-> JA(<<E_vmess>>)])),
               WellFormed(JO([outbounds |-> JA(<<E_null>>)]))}

WizardConfs == {Join(<<D_interfaceKey, D_peer>>, "\n"),
                Join(<<D_interface, D_keyAddress, D_peerBadEndpoint, D_peerV6>>, "\n"),
                Join(<<D_interfaceKey, D_peerNoKey>>, "\n"),
                D_peer, LineBlank}

\* the call state of the decoders is not touched by the wizard
WizardFrame == UNCHANGED <<pc, call, arg, ret, callee, memo>>

HandleParseVless ==
    /\ store.step = 1
    /\ \E input \in WizardLinks : \E parsed \in {ParsedVless(store, input)} :
          /\ store' = parsed.store
          /\ error' = parsed.error
    /\ WizardFrame

HandleParseAmnezia ==
    /\ store.step = 1
    /\ \E input \in WizardDocs : \E parsed \in {ParsedAmnezia(store, input)} :
          /\ store' = parsed.store
          /\ error' = parsed.error
    /\ WizardFrame

HandleParseAwg ==
    /\ store.step = 1
    /\ \E input \in WizardConfs : \E parsed \in {ParsedAwg(store, input)} :
          /\ store' = parsed.store
          /\ error' = parsed.error
    /\ WizardFrame

\* a mode tab of the import step: setMode(m.id); setError(null)
SetMode ==
    /\ store.step = 1
    /\ error' = NoError
    /\ UNCHANGED store
    /\ WizardFrame

SetDnsPreset ==
    /\ store.step = 2
    /\ \E dnsPreset \in DOMAIN DnsPresets : store' = [store EXCEPT !.dnsPreset = dnsPreset]
    /\ UNCHANGED error
    /\ WizardFrame

SetInboundPreset ==
    /\ store.step = 2
    /\ \E inboundPreset \in DOMAIN InboundPresets :
          store' = [store EXCEPT !.inboundPreset = inboundPreset]
    /\ UNCHANGED error
    /\ WizardFrame

\* the forward button of the presets step
NextStep ==
    /\ store.step = 2
    /\ store' = NextStepOf(store)
    /\ UNCHANGED error
    /\ WizardFrame

\* the back button of the presets step and of the result step
PrevStep ==
    /\ store.step \in {2, 3}
    /\ store' = PrevStepOf(store)
    /\ UNCHANGED error
    /\ WizardFrame

\* the restart button of the result step
HandleReset ==
    /\ store.step = 3
    /\ store' = ResetOf(store)
    /\ UNCHANGED error
    /\ WizardFrame

\* the page is loaded again: only the two presets are persisted, the other
\* fields of the store and the error of the import step start afresh
Reload ==
    /\ store' = [outbounds |-> <<>>, endpoints |-> <<>>, dnsPreset |-> store.dnsPreset,
                 inboundPreset |-> store.inboundPreset, step |-> 1]
    /\ error' = NoError
    /\ WizardFrame

NextWizard ==
    \/ HandleParseVless \/ HandleParseAmnezia \/ HandleParseAwg \/ SetMode
    \/ SetDnsPreset \/ SetInboundPreset \/ NextStep \/ PrevStep \/ HandleReset
    \/ Reload

SpecWizard == Init /\ [][NextWizard]_vars

\* the configuration the result step assembles from the store
ResultConfig ==
    BuildConfig([outbounds |-> store.outbounds, endpoints |-> store.endpoints,
                 dnsPreset |-> store.dnsPreset, inboundPreset |-> store.inboundPreset])

(***************************************************************************)
(* Claims about the wizard                                                 *)
(***************************************************************************)

\* the stored outbounds and the stored endpoints are not both non-empty
NotBoth(st) == st.outbounds = <<>> \/ st.endpoints = <<>>

\* C28: after any sequence of imports, step navigation and resets the stored
\* outbounds and the stored endpoints are never both non-empty; an import
\* that succeeds (the step goes from 1 to 2) leaves outbounds without
\* endpoints or one endpoint without outbounds, and an import that fails (an
\* error is shown) leaves outbounds, endpoints and step unchanged.
C28_NeverBoth ==
    /\ []NotBoth(store)
    /\ [][/\ error'.shown => store' = store
          /\ (store.step = 1 /\ store'.step = 2) =>
                \/ store'.outbounds # <<>> /\ store'.endpoints = <<>>
                \/ store'.outbounds = <<>> /\ Len(store'.endpoints) = 1]_vars

\* a link import succeeded: one outbound is stored, no endpoint, no error shown
C28_Witness ==
    /\ store.step = 2
    /\ Len(store.outbounds) = 1
    /\ store.outbounds[1].tag = <<"m", "y">>
    /\ store.endpoints = <<>>
    /\ ~error.shown

\* C29: from step 1 with empty collections, in every state reached through
\* imports, nextStep, prevStep and reset the step is 1, 2 or 3, and at step 2
\* or 3 the stored outbounds or the stored endpoints are non-empty, so the
\* result step assembles a configuration with a urltest over at least one tag.
C29_StepNeedsImport ==
    /\ store.step \in {1, 2, 3}
    /\ store.step \in {2, 3} => (store.outbounds # <<>> \/ store.endpoints # <<>>)
    /\ store.step = 3 =>
          /\ OfType(ResultConfig, "urltest") # <<>>
          /\ OfType(ResultConfig, "urltest")[1].outbounds # <<>>

\* the result step shows a configuration made from one imported endpoint
C29_Witness ==
    /\ store.step = 3
    /\ store.outbounds = <<>>
    /\ Len(store.endpoints) = 1
    /\ ResultConfig.endpoints = store.endpoints
    /\ OfType(ResultConfig, "urltest")[1].outbounds = <<A_awg_endpoint>>

(***************************************************************************)
(* Claims about the two batch entry points                                 *)
(***************************************************************************)

\* the line number and the message of every diagnostic, in order
Diagnostics(errors) ==
    [i \in 1..Len(errors) |-> [lineNumber |-> errors[i].lineNumber, error |-> errors[i].error]]

\* the two results have the same outbounds, diagnostics and three counts
BatchesAgree(v, p) ==
    /\ v.outbounds = p.outbounds
    /\ Diagnostics(v.errors) = Diagnostics(p.errors)
    /\ v.totalLinks = p.totalLinks
    /\ v.successCount = p.successCount
    /\ v.errorCount = p.errorCount

\* every line that is not blank and not a comment starts with "vless://"
OnlyVlessLines(lines) ==
    \A i \in 1..Len(lines) :
        SkippedLine(Trim(lines[i])) \/ StartsWith(Trim(lines[i]), S_vless)

\* C30: for every input whose non-blank, non-comment lines all start with
\* "vless://", parseVlessLinks and parseProxyLinks return the same outbounds
\* in every field including tag, the same diagnostics (line number and
\* message) in the same order, and the same totalLinks, successCount and
\* errorCount.
C30_BatchEntryPointsAgree ==
    (Returned("parseVlessLinks") /\ OnlyVlessLines(arg.lines)) =>
        BatchesAgree(ret, ParseProxyLinks(arg.text))

\* The two entry points do agree on inputs made of "vless://" lines only (no
\* blank line, no comment line) when no decoded tag starts with "proxy-p".
C30_AgreeOnTaggedLinks ==
    (/\ Returned("parseVlessLinks")
     /\ \A i \in 1..Len(arg.lines) : StartsWith(Trim(arg.lines[i]), S_vless)
     /\ \A i \in 1..Len(ret.outbounds) : ~StartsWith(ret.outbounds[i].tag, S_proxy_p)) =>
        BatchesAgree(ret, ParseProxyLinks(arg.text))

\* a failed link followed by a tagged link: one diagnostic and one outbound
C30_AgreeWitness ==
    /\ Returned("parseVlessLinks")
    /\ arg.lines = <<LineBadPort, LineTagged>>
    /\ Len(ret.errors) = 1
    /\ Len(ret.outbounds) = 1
    /\ BatchesAgree(ret, ParseProxyLinks(arg.text))

=============================================================================
